---- MODULE Spec2Model ----
(***************************************************************************)
(* Model of the Octopus Energy tariff comparison integration:              *)
(*   api.py          OctopusEnergyAPI (resolver, calculator, normalizer,   *)
(*                   current-rate lookup, get_tariff_data orchestration)   *)
(*   coordinator.py  OctopusEnergyCoordinator._async_update_data           *)
(*                                                                         *)
(* Representation.                                                         *)
(*  - An instant is an integer: the number of half-hours since 00:00 UTC   *)
(*    of day 0.  The REST API, the calculator and the normalizer exchange  *)
(*    instants as ISO-8601 strings in the one format                       *)
(*    "YYYY-MM-DDTHH:MM:SSZ" and compare them as strings; on strings of    *)
(*    that one format the lexicographic order is the order of the          *)
(*    instants, which is the order of the integers used here.              *)
(*  - Europe/London local time is UTC + uk_offset half-hours               *)
(*    (0 in winter, 2 in summer).                                          *)
(*  - A unit price or standing charge is an integer number of 1/1000      *)
(*    pence, a consumption an integer number of Wh.                        *)
(*    float(delta) / 1000 * price is kept exact as delta * price, in       *)
(*    units of 1/1000000 pence, so a total is                              *)
(*    SUM delta * price + 1000 * standing_charge.  Floating-point          *)
(*    rounding of these sums is not modelled.                              *)
(*  - A string that the code inspects character by character (lower(),    *)
(*    "in", replace()) is a sequence of one-character strings.             *)
(***************************************************************************)
EXTENDS Integers, Sequences, FiniteSets, TLC

VARIABLES
    \* _calculate_cost_for_consumption: its arguments, the zone offset of the
    \* analysis date, and what the call produced.  consumption_data,
    \* analysis_date and uk_offset are also the locals of get_tariff_data.
    tariff_name, unit_rates, consumption_data, standing_charge, analysis_date,
    uk_offset, calc,
    \* get_tariff_data: where the run stands, the wall clock ("now"), the three identity
    \* and telemetry fetches, the loop over TARIFFS_TO_COMPARE and its dicts,
    \* the requests issued so far, and what the call returned or raised
    pc, clock, fetch, kraken_token, account_info, plan, served, outcome,
    tariff_costs, tariff_rates, issued, returned,
    \* the coordinator: coordinator.data, how the last update ended, and the
    \* number of updates so far
    data, update, updates,
    \* the classifier on its own: a clock time, a period <<start, end>> and
    \* what the call under study returned
    check_time, period, classified,
    \* the normalizer and the current-rate lookup on their own (their
    \* arguments are unit_rates and clock): what each call produced
    timeline, current_rate,
    \* the resolver on its own: the REST API as the call finds it and what
    \* the call returned or raised (its plan is tariff_name)
    rest_api, resolved,
    \* the rates event entities, by tariff key: _last_rates_update, the rates
    \* of the last rates_updated event, and the number of rates_updated
    \* events fired so far
    last_rates_update, triggered, events

calc_vars == <<tariff_name, unit_rates, standing_charge, calc>>

run_vars == <<consumption_data, analysis_date, pc, clock, fetch, kraken_token,
              account_info, plan, served, outcome, tariff_costs, tariff_rates,
              issued, returned>>

coordinator_vars == <<data, update, updates>>

classifier_vars == <<check_time, period, classified>>

rates_vars == <<timeline, current_rate>>

resolver_vars == <<rest_api, resolved>>

entity_vars == <<last_rates_update, triggered, events>>

vars == <<tariff_name, unit_rates, consumption_data, standing_charge,
          analysis_date, uk_offset, calc, pc, clock, fetch, kraken_token,
          account_info, plan, served, outcome, tariff_costs, tariff_rates,
          issued, returned, data, update, updates, check_time, period,
          classified, timeline, current_rate, rest_api, resolved,
          last_rates_update, triggered, events>>

-----------------------------------------------------------------------------
(* Python values *)

\* JSON null / Python None, for a field that otherwise holds a number >= 0
None == -1

SlotsPerDay == 48

DIRECT_DEBIT == "DIRECT_DEBIT"
NON_DIRECT_DEBIT == "NON_DIRECT_DEBIT"

Max(S) == CHOOSE x \in S : \A y \in S : y <= x
Min(S) == CHOOSE x \in S : \A y \in S : x <= y

\* sorted(S) for a set of numbers
RECURSIVE sorted(_)
sorted(S) ==
    IF S = {} THEN <<>>
    ELSE LET m == Min(S) IN <<m>> \o sorted(S \ {m})

RECURSIVE SumSeq(_)
SumSeq(s) == IF s = <<>> THEN 0 ELSE Head(s) + SumSeq(Tail(s))

Range(s) == {s[i] : i \in DOMAIN s}

-----------------------------------------------------------------------------
(* Strings as character sequences *)

Chars(s) ==
    CASE s = "Agile Octopus" ->
           <<"A","g","i","l","e"," ","O","c","t","o","p","u","s">>
      [] s = "Octopus Go" ->
           <<"O","c","t","o","p","u","s"," ","G","o">>
      [] s = "Cosy Octopus" ->
           <<"C","o","s","y"," ","O","c","t","o","p","u","s">>
      [] s = "Flexible Octopus" ->
           <<"F","l","e","x","i","b","l","e"," ","O","c","t","o","p","u","s">>
      [] s = "Intelligent Octopus Go" ->
           <<"I","n","t","e","l","l","i","g","e","n","t"," ",
             "O","c","t","o","p","u","s"," ","G","o">>
      [] s = "OCTOPUS GO" ->
           <<"O","C","T","O","P","U","S"," ","G","O">>
      [] s = "go" -> <<"g","o">>
      [] s = "agile" -> <<"a","g","i","l","e">>
      [] s = "cosy" -> <<"c","o","s","y">>
      [] s = "E-1R-AGILE-24-10-01-C" ->
           <<"E","-","1","R","-","A","G","I","L","E","-","2","4","-","1","0",
             "-","0","1","-","C">>
      [] s = "AGILE" -> <<"A","G","I","L","E">>
      [] s = "GO" -> <<"G","O">>
      [] s = "COSY" -> <<"C","O","S","Y">>
      [] s = "FLEX" -> <<"F","L","E","X">>

\* the capitals of the names in use and their small letters
LowerCase ==
    [c \in {"A", "C", "F", "G", "I", "O", "P", "S", "T", "U"} |->
        CASE c = "A" -> "a"
          [] c = "C" -> "c"
          [] c = "F" -> "f"
          [] c = "G" -> "g"
          [] c = "I" -> "i"
          [] c = "O" -> "o"
          [] c = "P" -> "p"
          [] c = "S" -> "s"
          [] c = "T" -> "t"
          [] c = "U" -> "u"]

\* str.lower()
lower(cs) ==
    [i \in DOMAIN cs |->
        IF cs[i] \in DOMAIN LowerCase THEN LowerCase[cs[i]] ELSE cs[i]]

\* str.upper()
upper(cs) ==
    [i \in DOMAIN cs |->
        CASE cs[i] = "a" -> "A"
          [] cs[i] = "c" -> "C"
          [] cs[i] = "e" -> "E"
          [] cs[i] = "g" -> "G"
          [] cs[i] = "o" -> "O"
          [] OTHER -> cs[i]]

\* str.replace(old, new) for a one-character old
replace(cs, old, new) == [i \in DOMAIN cs |-> IF cs[i] = old THEN new ELSE cs[i]]

\* needle in hay
In(needle, hay) ==
    \E i \in 1..(Len(hay) - Len(needle) + 1) :
        SubSeq(hay, i, i + Len(needle) - 1) = needle

\* const.py TARIFFS_TO_COMPARE
TARIFFS_TO_COMPARE ==
    <<"Agile Octopus", "Octopus Go", "Cosy Octopus", "Flexible Octopus">>

-----------------------------------------------------------------------------
(* Time-of-day classifier: api.py 19-89.  A clock time is a number of      *)
(* half-hours since local midnight, 0..47.                                 *)

GO_NIGHT_START == 1
GO_NIGHT_END == 11
\* a variant of COSY_PERIODS: the afternoon band runs on to 17:00
COSY_PERIODS_into_peak == << <<8, 14>>, <<26, 34>>, <<44, 0>> >>
COSY_PERIODS == << <<8, 14>>, <<26, 32>>, <<44, 0>> >>
COSY_PEAK_START == 32
COSY_PEAK_END == 38

\* dt.time() of read_time_utc.astimezone(uk_tz)
LocalTime(instant, offset) == (instant + offset) % SlotsPerDay

\* a variant of is_time_in_period: the end of the period belongs to it
is_time_in_period_to_end(t, start, end) ==
    IF start < end
    THEN start <= t /\ t <= end
    ELSE t >= start \/ t <= end

\* api.py 38-45
is_time_in_period(t, start, end) ==
    IF start < end
    THEN start <= t /\ t < end
    ELSE t >= start \/ t < end

get_go_rate_for_time(t, day_rate, night_rate) ==
    IF is_time_in_period(t, GO_NIGHT_START, GO_NIGHT_END)
    THEN night_rate
    ELSE day_rate

get_cosy_rate_for_time(t, day_rate, cosy_rate, peak_rate) ==
    IF is_time_in_period(t, COSY_PEAK_START, COSY_PEAK_END)
    THEN peak_rate
    ELSE IF \E i \in DOMAIN COSY_PERIODS :
                is_time_in_period(t, COSY_PERIODS[i][1], COSY_PERIODS[i][2])
         THEN cosy_rate
         ELSE day_rate

-----------------------------------------------------------------------------
(* Cost calculator: api.py 381-515.                                        *)
(* A rate is [valid_from, valid_to, value_inc_vat, payment_method]; a      *)
(* reading is [readAt, consumptionDelta].                                  *)

\* api.py 390-391
is_go_tariff(name) ==
    /\ In(Chars("go"), lower(Chars(name)))
    /\ ~In(Chars("agile"), lower(Chars(name)))

is_cosy_tariff(name) == In(Chars("cosy"), lower(Chars(name)))

\* api.py 399-401
dd_rates(rates) ==
    LET dd == SelectSeq(rates, LAMBDA r : r.payment_method = DIRECT_DEBIT)
    IN  IF dd = <<>> THEN rates ELSE dd

\* api.py 404
rate_values(rates) ==
    sorted({ r.value_inc_vat : r \in Range(dd_rates(rates)) })

\* a variant of go_tiers_found: one price is taken for two tiers
go_tiers_found_one_price(values) == ~(Len(values) < 1)

\* api.py 408, 420: the number of distinct prices each banded plan needs
go_tiers_found(values) == ~(Len(values) < 2)
cosy_tiers_found(values) == ~(Len(values) < 3)

\* is_time_of_day_tariff as it stands after api.py 394-429
is_time_of_day_tariff(name, rates) ==
    IF is_go_tariff(name) THEN go_tiers_found(rate_values(rates))
    ELSE IF is_cosy_tariff(name) THEN cosy_tiers_found(rate_values(rates))
    ELSE FALSE

\* a variant of go_night_rate: the tier is taken from the order of arrival
go_night_rate_first_listed(values) == dd_rates(unit_rates)[1].value_inc_vat

\* api.py 413-414 (values is sorted ascending and has no duplicates)
go_night_rate(values) == Min(Range(values))
go_day_rate(values) == Max(Range(values))

\* api.py 424-427
cosy_cosy_rate(values) == values[1]
cosy_day_rate(values) == values[2]
cosy_peak_rate(values) == values[3]

\* api.py 434-439
start_of_day_utc(date, offset) == date * SlotsPerDay - offset
end_of_day_utc(date, offset) == start_of_day_utc(date, offset) + SlotsPerDay

\* api.py 442-455: the direct-debit rates that apply to the analysis day
dd_applicable_rates(rates, date, offset) ==
    SelectSeq(rates, LAMBDA r :
        /\ r.payment_method = DIRECT_DEBIT
        /\ r.valid_from # None
        /\ r.valid_from < end_of_day_utc(date, offset)
        /\ (r.valid_to = None \/ r.valid_to > start_of_day_utc(date, offset)))

\* api.py 458-459: the fallback to rates of any payment method
fallback_rates(rates, date, offset) ==
    SelectSeq(rates, LAMBDA r : r.valid_from < end_of_day_utc(date, offset))

\* api.py 459: None < str is a TypeError
fallback_raises(rates) == \E r \in Range(rates) : r.valid_from = None

applicable_rates(rates, date, offset) ==
    IF dd_applicable_rates(rates, date, offset) # <<>>
    THEN dd_applicable_rates(rates, date, offset)
    ELSE fallback_rates(rates, date, offset)

\* a variant of rate_map_takes: the first rate listed for a valid_from stays
rate_map_takes_first(map, rate) == rate.valid_from \notin DOMAIN map

\* api.py 465: whether a rate's price is written to rate_map[valid_from]
rate_map_takes(map, rate) ==
    rate.valid_from \notin DOMAIN map \/ rate.payment_method = DIRECT_DEBIT

\* api.py 462-466 (and 624-629): rate_map after the first n rates
RECURSIVE build_rate_map(_, _)
build_rate_map(rates, n) ==
    IF n = 0 THEN [k \in {} |-> 0]
    ELSE LET map == build_rate_map(rates, n - 1)
             rate == rates[n]
         IN  IF rate_map_takes(map, rate)
             THEN [k \in DOMAIN map \cup {rate.valid_from} |->
                      IF k = rate.valid_from THEN rate.value_inc_vat ELSE map[k]]
             ELSE map

\* sorted(rate_map.items()): <<valid_from, price>> pairs, earliest first
sorted_items(map) ==
    LET keys == sorted(DOMAIN map)
    IN  [i \in DOMAIN keys |-> <<keys[i], map[keys[i]]>>]

\* a variant of timestamp_matching_rate: "<=" where the code has "<"
timestamp_matching_rate_at_or_before(sorted_rates, read_time) ==
    LET earlier == { i \in DOMAIN sorted_rates : sorted_rates[i][1] <= read_time }
    IN  IF earlier # {} THEN sorted_rates[Max(earlier)][2]
        ELSE IF sorted_rates # <<>> THEN sorted_rates[1][2]
        ELSE None

\* api.py 498-506
timestamp_matching_rate(sorted_rates, read_time) ==
    LET earlier == { i \in DOMAIN sorted_rates : sorted_rates[i][1] < read_time }
    IN  IF earlier # {} THEN sorted_rates[Max(earlier)][2]
        ELSE IF sorted_rates # <<>> THEN sorted_rates[1][2]
        ELSE None

\* api.py 473-476
consumption_wh(reading) ==
    IF reading.consumptionDelta = None THEN 0 ELSE reading.consumptionDelta

\* api.py 485-506: the rate charged for one reading (None: no rate)
matching_rate(reading, name, rates, date, offset) ==
    IF is_time_of_day_tariff(name, rates)
    THEN IF is_go_tariff(name)
         THEN get_go_rate_for_time(LocalTime(reading.readAt, offset),
                                   go_day_rate(rate_values(rates)),
                                   go_night_rate(rate_values(rates)))
         ELSE get_cosy_rate_for_time(LocalTime(reading.readAt, offset),
                                     cosy_day_rate(rate_values(rates)),
                                     cosy_cosy_rate(rate_values(rates)),
                                     cosy_peak_rate(rate_values(rates)))
    ELSE timestamp_matching_rate(
             sorted_items(build_rate_map(applicable_rates(rates, date, offset),
                              Len(applicable_rates(rates, date, offset)))),
             reading.readAt)

\* a variant of charged_rates: the rate is looked up for every reading
charged_rates_without_skip(readings, name, rates, date, offset) ==
    [i \in DOMAIN readings |->
        matching_rate(readings[i], name, rates, date, offset)]

\* api.py 472-510: per reading, the rate it was charged (None when the reading
\* was skipped at 478-479 or no rate was found)
charged_rates(readings, name, rates, date, offset) ==
    [i \in DOMAIN readings |->
        IF consumption_wh(readings[i]) = 0 THEN None
        ELSE matching_rate(readings[i], name, rates, date, offset)]

\* api.py 508-510
reading_cost(reading, rate) ==
    IF rate = None THEN 0 ELSE consumption_wh(reading) * rate

\* a variant of add_standing_charge: the charge is added for every reading
add_standing_charge_per_reading(total_energy_cost, charge) ==
    total_energy_cost + Len(consumption_data) * 1000 * charge

\* api.py 513
add_standing_charge(total_energy_cost, charge) == total_energy_cost + 1000 * charge

\* _calculate_cost_for_consumption: what the call returns, with the values the
\* claims are about (mode, rates selected for lookup, per-reading rates)
calculate_cost_for_consumption(readings, rates, charge, date, name, offset) ==
    LET tod == is_time_of_day_tariff(name, rates)
        sel == IF tod THEN <<>> ELSE applicable_rates(rates, date, offset)
        raised == /\ ~tod
                  /\ dd_applicable_rates(rates, date, offset) = <<>>
                  /\ fallback_raises(rates)
        used == charged_rates(readings, name, rates, date, offset)
    IN  IF raised
        THEN [raised |-> TRUE, total |-> None, time_of_day |-> FALSE,
              applicable_rates |-> <<>>, sorted_rates |-> <<>>,
              matching_rate |-> <<>>]
        ELSE [raised |-> FALSE,
              total |-> add_standing_charge(
                  SumSeq([i \in DOMAIN readings |->
                             reading_cost(readings[i], used[i])]), charge),
              time_of_day |-> tod,
              applicable_rates |-> sel,
              sorted_rates |-> sorted_items(build_rate_map(sel, Len(sel))),
              matching_rate |-> used]


-----------------------------------------------------------------------------
(* "now": datetime.now(timezone.utc).isoformat(), a string such as         *)
(* "2024-01-01T12:34:56.789012+00:00", compared as a string with the       *)
(* "...SSZ" strings of the rates.  now = [slot, on_the_second]: slot is    *)
(* the half-hour now lies in, on_the_second says that now lies within the  *)
(* first second of that half-hour.  The two strings agree on their first   *)
(* 19 characters exactly then, and "Z" sorts after "." and "+".            *)

\* x > now, for the string x of an instant on the half-hour
after_now(x, now) == IF now.on_the_second THEN x >= now.slot ELSE x > now.slot

\* x <= now
not_after_now(x, now) == ~after_now(x, now)

-----------------------------------------------------------------------------
(* Rate timeline normalizer: api.py 589-678 *)

\* api.py 607
is_valid(rate, now) == rate.valid_to = None \/ after_now(rate.valid_to, now)

\* api.py 598-621: the working set of rates
filtered_rates(rates, now) ==
    LET dd == SelectSeq(rates, LAMBDA r :
                  r.payment_method = DIRECT_DEBIT /\ is_valid(r, now))
        valid == SelectSeq(rates, LAMBDA r : is_valid(r, now))
    IN  IF dd # <<>> THEN dd
        ELSE IF valid # <<>> THEN valid
        ELSE rates

\* api.py 635-638 (days and instants in UTC)
start_of_today(now) == (now.slot \div SlotsPerDay) * SlotsPerDay
end_of_today(now) == start_of_today(now) + SlotsPerDay
end_of_tomorrow(now) == start_of_today(now) + 2 * SlotsPerDay

\* api.py 643
has_tomorrow(sorted_rates, now) ==
    \E i \in DOMAIN sorted_rates : sorted_rates[i][1] >= end_of_today(now)

\* api.py 646
end_time(sorted_rates, now) ==
    IF has_tomorrow(sorted_rates, now) THEN end_of_tomorrow(now)
    ELSE end_of_today(now)

\* a variant of period_rate: no rate for a period that starts before every
\* rate of the working set
period_rate_without_fallback(sorted_rates, period_start) ==
    LET started == { i \in DOMAIN sorted_rates : sorted_rates[i][1] <= period_start }
    IN  IF started # {} THEN sorted_rates[Max(started)][2]
        ELSE None

\* a variant of period_rate: "<" where the code has "<="
period_rate_strictly_before(sorted_rates, period_start) ==
    LET started == { i \in DOMAIN sorted_rates : sorted_rates[i][1] < period_start }
    IN  IF started # {} THEN sorted_rates[Max(started)][2]
        ELSE IF sorted_rates # <<>> THEN sorted_rates[1][2]
        ELSE None

\* api.py 654-665
period_rate(sorted_rates, period_start) ==
    LET started == { i \in DOMAIN sorted_rates : sorted_rates[i][1] <= period_start }
    IN  IF started # {} THEN sorted_rates[Max(started)][2]
        ELSE IF sorted_rates # <<>> THEN sorted_rates[1][2]
        ELSE None

\* api.py 671: round(pence / 100, 6), in units of 0.000001 GBP
pence_to_gbp(rate) == rate * 10

\* api.py 648-675: one entry per half-hour of the window that has a rate
formatted_rates(sorted_rates, now) ==
    LET first == start_of_today(now)
        n == end_time(sorted_rates, now) - first
        all == [k \in 1..n |->
                   [start |-> first + k - 1,
                    end |-> first + k,
                    value_inc_vat |->
                        IF period_rate(sorted_rates, first + k - 1) = None THEN None
                        ELSE pence_to_gbp(period_rate(sorted_rates, first + k - 1)),
                    is_capped |-> FALSE]]
    IN  SelectSeq(all, LAMBDA e : e.value_inc_vat # None)

\* api.py 610: None <= str is a TypeError
format_raises(rates) == \E r \in Range(rates) : r.valid_from = None

\* _format_rates_for_event
format_rates_for_event(rates, now) ==
    IF rates = <<>> THEN [raised |-> FALSE, rates |-> <<>>]
    ELSE IF format_raises(rates) THEN [raised |-> TRUE, rates |-> <<>>]
    ELSE LET working == filtered_rates(rates, now)
             sorted_rates == sorted_items(build_rate_map(working, Len(working)))
         IN  [raised |-> FALSE, rates |-> formatted_rates(sorted_rates, now)]

-----------------------------------------------------------------------------
(* Current rate: api.py 680-718 *)

\* round(pence, 2), in units of 0.01 pence
round_2dp(rate) ==
    LET q == rate \div 10
        r == rate % 10
    IN  IF r < 5 THEN q
        ELSE IF r > 5 THEN q + 1
        ELSE IF q % 2 = 0 THEN q ELSE q + 1

\* api.py 690-695
current_rates(rates, now) ==
    SelectSeq(rates, LAMBDA r :
        /\ r.payment_method = DIRECT_DEBIT
        /\ r.valid_to = None
        /\ not_after_now(r.valid_from, now))

\* api.py 704-708
valid_rates(rates, now) ==
    SelectSeq(rates, LAMBDA r :
        /\ not_after_now(r.valid_from, now)
        /\ (r.valid_to = None \/ after_now(r.valid_to, now)))

\* api.py 700: the head of a stable sort by valid_from, descending
most_recent(rates) ==
    rates[Min({ i \in DOMAIN rates :
                  \A j \in DOMAIN rates : rates[j].valid_from <= rates[i].valid_from })]

\* api.py 712-715: the head of a stable sort, descending, by the key
\* (payment_method != "DIRECT_DEBIT", -1)
sort_head(rates) ==
    LET key(r) == IF r.payment_method # DIRECT_DEBIT THEN 1 ELSE 0
    IN  rates[Min({ i \in DOMAIN rates :
                      \A j \in DOMAIN rates : key(rates[j]) <= key(rates[i]) })]

\* api.py 694, 706: None <= str is a TypeError
current_rate_raises(rates, now) ==
    \/ \E r \in Range(rates) :
          /\ r.payment_method = DIRECT_DEBIT
          /\ r.valid_to = None
          /\ r.valid_from = None
    \/ /\ current_rates(rates, now) = <<>>
       /\ \E r \in Range(rates) : r.valid_from = None

\* _get_current_rate (value None: the call returned None)
get_current_rate(rates, now) ==
    IF rates = <<>> THEN [raised |-> FALSE, value |-> None]
    ELSE IF current_rate_raises(rates, now) THEN [raised |-> TRUE, value |-> None]
    ELSE IF current_rates(rates, now) # <<>>
    THEN [raised |-> FALSE,
          value |-> round_2dp(most_recent(current_rates(rates, now)).value_inc_vat)]
    ELSE IF valid_rates(rates, now) # <<>>
    THEN [raised |-> FALSE,
          value |-> round_2dp(sort_head(valid_rates(rates, now)).value_inc_vat)]
    ELSE [raised |-> FALSE, value |-> None]

-----------------------------------------------------------------------------
(* Rate catalog resolver: api.py 295-379.                                  *)
(* rest is the REST API as one call of the resolver finds it:              *)
(*   unreachable  the requests whose _rest_query raises                    *)
(*   products     all_products["results"]: [display_name, direction,       *)
(*                code, self_link]                                         *)
(*   regions      tariff_details["single_register_electricity_tariffs"]:   *)
(*                region key -> [direct_debit_monthly, varying], each a    *)
(*                sequence holding the sub-block or nothing; a sub-block   *)
(*                is [standing_charge_inc_vat, links], links a sequence    *)
(*                of [rel, href]                                           *)
(*   unit_rates   the "results" of the unit-rates request                  *)

\* api.py 305-308
exact_match(products, tariff) ==
    { i \in DOMAIN products :
        /\ products[i].display_name = tariff
        /\ products[i].direction = "IMPORT" }

\* api.py 312-315
partial_match(products, tariff) ==
    { i \in DOMAIN products :
        /\ In(lower(Chars(tariff)), lower(Chars(products[i].display_name)))
        /\ products[i].direction = "IMPORT" }

find_product_first_containing(products, tariff) ==
    IF partial_match(products, tariff) # {}
    THEN <<products[Min(partial_match(products, tariff))]>>
    ELSE <<>>

\* api.py 303-315: the product, or nothing
find_product(products, tariff) ==
    IF exact_match(products, tariff) # {}
    THEN <<products[Min(exact_match(products, tariff))]>>
    ELSE IF partial_match(products, tariff) # {}
    THEN <<products[Min(partial_match(products, tariff))]>>
    ELSE <<>>

\* api.py 331
region_code_key(region_code) == <<"_", region_code>>

region_tariffs_varying_first(region) ==
    IF region.varying # <<>> THEN region.varying
    ELSE region.direct_debit_monthly

\* api.py 337
region_tariffs(region) ==
    IF region.direct_debit_monthly # <<>> THEN region.direct_debit_monthly
    ELSE region.varying

\* api.py 348-352: the href of the first link whose rel is
\* standard_unit_rates, or nothing
unit_rates_link(links) ==
    LET standard == { i \in DOMAIN links : links[i].rel = "standard_unit_rates" }
    IN  IF standard = {} THEN "" ELSE links[Min(standard)].href

\* what a call that raised leaves behind
Raised(error, requests) ==
    [raised |-> TRUE, error |-> error, standing_charge |-> None,
     unit_rates |-> <<>>, code |-> "", requests |-> requests,
     unit_rates_link |-> ""]

\* _get_potential_tariff_rates: what it returns or raises, the requests it
\* issued and the link its unit-rates request went to
get_potential_tariff_rates(tariff, region_code, rest) ==
    IF "products" \in rest.unreachable
    THEN Raised("RequestException", <<"products">>)
    ELSE LET product == find_product(rest.products, tariff) IN
    IF product = <<>>
    THEN Raised("No matching tariff found", <<"products">>)
    ELSE IF ~product[1].self_link
    THEN Raised("Self link not found", <<"products">>)
    ELSE IF "detail" \in rest.unreachable
    THEN Raised("RequestException", <<"products", "detail">>)
    ELSE IF region_code_key(region_code) \notin DOMAIN rest.regions
    THEN Raised("Region code not found", <<"products", "detail">>)
    ELSE LET block == region_tariffs(rest.regions[region_code_key(region_code)]) IN
    IF block = <<>>
    THEN Raised("No payment method found", <<"products", "detail">>)
    ELSE IF block[1].standing_charge_inc_vat = None
    THEN Raised("Standing charge including VAT not found", <<"products", "detail">>)
    ELSE IF unit_rates_link(block[1].links) = ""
    THEN Raised("Standard unit rates link not found", <<"products", "detail">>)
    ELSE IF "unit_rates" \in rest.unreachable
    THEN Raised("RequestException", <<"products", "detail", "unit_rates">>)
    ELSE [raised |-> FALSE, error |-> "",
          standing_charge |-> block[1].standing_charge_inc_vat,
          unit_rates |-> rest.unit_rates,
          code |-> product[1].code,
          requests |-> <<"products", "detail", "unit_rates">>,
          unit_rates_link |-> unit_rates_link(block[1].links)]

-----------------------------------------------------------------------------
(* Comparison orchestrator: api.py 517-587 *)

\* a dict as a function; {} is EmptyDict
EmptyDict == [k \in {} |-> 0]
Put(dict, key, value) ==
    [k \in DOMAIN dict \cup {key} |-> IF k = key THEN value ELSE dict[k]]

\* api.py 560
tariff_key(tariff) == replace(lower(Chars(tariff)), " ", "_")

\* the key "current_flexible_rate" of api.py 572
CURRENT_FLEXIBLE_RATE ==
    <<"c","u","r","r","e","n","t","_","f","l","e","x","i","b","l","e","_",
      "r","a","t","e">>

\* api.py 280-293
identify_current_tariff(tariff_code) ==
    LET code == upper(Chars(tariff_code))
    IN  IF In(Chars("AGILE"), code) THEN "Agile Octopus"
        ELSE IF In(Chars("GO"), code) THEN "Octopus Go"
        ELSE IF In(Chars("COSY"), code) THEN "Cosy Octopus"
        ELSE IF In(Chars("FLEX"), code) THEN "Flexible Octopus"
        ELSE "Other tariff"

\* api.py 240: the last character of the tariff code
region_code_of(tariff_code) == Chars(tariff_code)[Len(Chars(tariff_code))]

\* api.py 252: the analysis date is today in Europe/London
today_uk(instant, offset) == (instant.slot + offset) \div SlotsPerDay

\* a guard that never returns early
no_consumption_never(consumption) == FALSE

\* api.py 529
no_consumption(consumption) == consumption = <<>>

\* api.py 537, 579: the total in Wh (round(kWh, 3) keeps every Wh)
total_consumption(consumption) ==
    SumSeq([i \in DOMAIN consumption |-> consumption_wh(consumption[i])])

\* dicts that live on from run to run
new_dicts_kept(dicts) == dicts

\* api.py 543-544: tariff_costs = {} and tariff_rates = {} of a new run
new_dicts(dicts) == [tariff_costs |-> EmptyDict, tariff_rates |-> EmptyDict]

\* a handler that drops what the earlier plans stored
except_plan_resets(dicts) ==
    [tariff_costs |-> EmptyDict, tariff_rates |-> EmptyDict]

\* api.py 574-575: what the handler of a plan's exception leaves of the dicts
except_plan(dicts) == dicts

\* api.py 546-575: one iteration of the loop over TARIFFS_TO_COMPARE, from
\* the dicts as the previous iterations left them
compare_plan(tariff, rest, dicts, readings, region_code, date, offset, instant) ==
    LET res == get_potential_tariff_rates(tariff, region_code, rest)
        cost == calculate_cost_for_consumption(readings, res.unit_rates,
                    res.standing_charge, date, tariff, offset)
        fmt == format_rates_for_event(res.unit_rates, instant)
        cur == get_current_rate(res.unit_rates, instant)
        key == tariff_key(tariff)
        costed == [dicts EXCEPT !.tariff_costs = Put(@, key, cost.total)]
        rated == [costed EXCEPT !.tariff_rates = Put(@, key, fmt.rates)]
    IN  IF res.raised
        THEN [outcome |-> "resolve_raised", requests |-> res.requests,
              dicts |-> except_plan(dicts)]
        ELSE IF res.unit_rates = <<>>
        THEN [outcome |-> "no_rates", requests |-> res.requests, dicts |-> dicts]
        ELSE IF cost.raised
        THEN [outcome |-> "calculate_raised", requests |-> res.requests,
              dicts |-> except_plan(dicts)]
        ELSE IF fmt.raised
        THEN [outcome |-> "format_raised", requests |-> res.requests,
              dicts |-> except_plan(costed)]
        ELSE IF tariff # "Flexible Octopus"
        THEN [outcome |-> "ok", requests |-> res.requests, dicts |-> rated]
        ELSE IF cur.raised
        THEN [outcome |-> "current_rate_raised", requests |-> res.requests,
              dicts |-> except_plan(rated)]
        ELSE IF cur.value = None
        THEN [outcome |-> "ok", requests |-> res.requests, dicts |-> rated]
        ELSE [outcome |-> "ok", requests |-> res.requests,
              dicts |-> [rated EXCEPT !.tariff_costs =
                            Put(@, CURRENT_FLEXIBLE_RATE, cur.value)]]

\* what get_tariff_data hands to its caller: nothing yet, an exception, the
\* empty dict of api.py 531, or the dict of api.py 577-583 (its **tariff_costs
\* entries are kept together in the field tariff_costs)
NotReturned ==
    [kind |-> "pending", current_tariff_name |-> "", total_consumption |-> 0,
     number_of_readings |-> 0, tariff_rates |-> EmptyDict,
     tariff_costs |-> EmptyDict]
Exception == [NotReturned EXCEPT !.kind = "raised"]
EmptyResult == [NotReturned EXCEPT !.kind = "empty"]
\* coordinator.data before the first successful update
NoData == [NotReturned EXCEPT !.kind = "None"]

\* api.py 577-583
comparison_result(account, consumption, rates, costs) ==
    [kind |-> "result",
     current_tariff_name |-> identify_current_tariff(account.tariff_code),
     total_consumption |-> total_consumption(consumption),
     number_of_readings |-> Len(consumption),
     tariff_rates |-> rates,
     tariff_costs |-> costs]

\* a coordinator that swallows the exception and publishes what it was handed
async_update_data_swallows(result, old_data) ==
    [update |-> "success", data |-> result]

\* coordinator.py 33-45: how _async_update_data ends for what get_tariff_data
\* handed it (the DataUpdateCoordinator keeps coordinator.data when the
\* update raises UpdateFailed)
async_update_data(result, old_data) ==
    IF result.kind = "raised"
    THEN [update |-> "UpdateFailed", data |-> old_data]
    ELSE [update |-> "success", data |-> result]

-----------------------------------------------------------------------------
(* Entities: sensor.py 145-330, event.py 35-65 *)

\* a dict or None in a condition: None and {} are false
truthy(coordinator_data) == coordinator_data.kind = "result"

\* round(cost_pence / 100, 2), in units of 0.01 GBP; a cost is held in
\* millionths of a penny
round_gbp_2dp(cost) ==
    LET q == cost \div 1000000
        r == cost % 1000000
    IN  IF r < 500000 THEN q
        ELSE IF r > 500000 THEN q + 1
        ELSE IF q % 2 = 0 THEN q ELSE q + 1

\* a sensor that reads the cost with a default, as extra_state_attributes
\* does
native_value_with_default(coordinator_data, key) ==
    IF truthy(coordinator_data) /\ key \in DOMAIN coordinator_data.tariff_costs
    THEN round_gbp_2dp(coordinator_data.tariff_costs[key])
    ELSE 0

\* sensor.py 160-167 (and 196-203, 232-239, 268-275): native_value of the
\* cost sensor of the plan with this key
native_value(coordinator_data, key) ==
    IF truthy(coordinator_data)
    THEN IF key \in DOMAIN coordinator_data.tariff_costs
         THEN round_gbp_2dp(coordinator_data.tariff_costs[key])
         ELSE None
    ELSE None

\* str(rates): the entries' values one after the other, False as 0
str(rates) ==
    [i \in 1..(4 * Len(rates)) |->
        LET e == rates[((i - 1) \div 4) + 1]
        IN  CASE (i - 1) % 4 = 0 -> e.start
              [] (i - 1) % 4 = 1 -> e.end
              [] (i - 1) % 4 = 2 -> e.value_inc_vat
              [] OTHER -> IF e.is_capped THEN 1 ELSE 0]

\* event.py 57-58: the plan's rates in coordinator.data, [] when there are
\* none to act on
rates_of(coordinator_data, key) ==
    IF truthy(coordinator_data) /\ key \in DOMAIN coordinator_data.tariff_rates
    THEN coordinator_data.tariff_rates[key]
    ELSE <<>>

\* an entity that does not remember what it fired
handle_coordinator_update_forgets(coordinator_data, key, last) ==
    LET rates == rates_of(coordinator_data, key)
    IN  IF rates # <<>> /\ <<str(rates)>> # last
        THEN [fired |-> TRUE, rates |-> rates, last |-> last]
        ELSE [fired |-> FALSE, rates |-> <<>>, last |-> last]

\* event.py 55-65: _handle_coordinator_update of the entity with this key,
\* whose _last_rates_update is last: whether it fires rates_updated, with
\* which rates, and what it remembers
handle_coordinator_update(coordinator_data, key, last) ==
    LET rates == rates_of(coordinator_data, key)
    IN  IF rates # <<>> /\ <<str(rates)>> # last
        THEN [fired |-> TRUE, rates |-> rates, last |-> <<str(rates)>>]
        ELSE [fired |-> FALSE, rates |-> <<>>, last |-> last]

\* nothing fetched yet
NoAccount == [tariff_code |-> "", region_code |-> "", device_id |-> ""]
NotFetched == [token |-> "pending", account |-> "pending", telemetry |-> "pending"]
Midnight == [slot |-> 0, on_the_second |-> FALSE]

\* no call made yet
NotClassified == [op |-> "", value |-> None]
NotFormatted ==
    [done |-> FALSE, raised |-> FALSE, rates |-> <<>>, working |-> <<>>,
     sorted_rates |-> <<>>]
NotLookedUp == [done |-> FALSE, raised |-> FALSE, value |-> None]
NoRest == [unreachable |-> {}, products |-> <<>>, regions |-> EmptyDict,
           unit_rates |-> <<>>]
NotResolved ==
    [raised |-> FALSE, error |-> "", standing_charge |-> None,
     unit_rates |-> <<>>, code |-> "", requests |-> <<>>,
     unit_rates_link |-> ""]

\* event.py 85-115: one rates event entity per tariff key
RatesEvents ==
    { tariff_key(TARIFFS_TO_COMPARE[i]) : i \in DOMAIN TARIFFS_TO_COMPARE }

\* event.py 52: no entity has fired yet (an absent value is <<>>, a present
\* one <<value>>)
NoEvents ==
    /\ last_rates_update = [k \in RatesEvents |-> <<>>]
    /\ triggered = [k \in RatesEvents |-> <<>>]
    /\ events = [k \in RatesEvents |-> 0]

\* the resolver not called on its own
NoResolve ==
    /\ rest_api = NoRest
    /\ resolved = NotResolved

\* the classifier, the normalizer and the current-rate lookup not called
\* on their own
NoCalls ==
    /\ check_time = 0
    /\ period = <<0, 0>>
    /\ classified = NotClassified
    /\ timeline = NotFormatted
    /\ current_rate = NotLookedUp
    /\ NoResolve

\* the coordinator after construction, before its first update
Idle ==
    /\ pc = "idle"
    /\ clock = Midnight
    /\ fetch = NotFetched
    /\ kraken_token = ""
    /\ account_info = NoAccount
    /\ plan = 0
    /\ served = <<>>
    /\ outcome = <<>>
    /\ tariff_costs = EmptyDict
    /\ tariff_rates = EmptyDict
    /\ issued = <<>>
    /\ returned = NotReturned
    /\ data = NoData
    /\ update = "none"
    /\ updates = 0
    /\ NoEvents

-----------------------------------------------------------------------------
(* The calculator on its own: every call of _calculate_cost_for_consumption *)
(* with arguments drawn from bounded sets.                                  *)

MaxRates == 2
MaxReadings == 2
MaxTierRates == 4

BoundedSeqs(S, n) == UNION { [1..k -> S] : k \in 0..n }

DistinctSeqs(S, n) ==
    { s \in BoundedSeqs(S, n) :
        \A i, j \in DOMAIN s : i # j => s[i] # s[j] }

AnalysisDates == {1}
\* GMT and BST
UkOffsets == {0, 2}
StandingCharges == {45000}

\* [valid_from, valid_to) windows around analysis day 1 (UTC 48..96, or 46..94
\* in summer): open-ended from the day before, ended at 48, starting inside
\* the day, starting at 94; each with its direct-debit price
Windows == { <<0, None, 20000>>, <<0, 48, 22000>>, <<60, None, 30000>>,
             <<94, None, 35000>> }
TimedRates ==
    { [valid_from |-> w[1], valid_to |-> w[2], value_inc_vat |-> w[3],
       payment_method |-> DIRECT_DEBIT] : w \in Windows }
    \cup
    { [valid_from |-> w[1], valid_to |-> w[2], value_inc_vat |-> 25000,
       payment_method |-> NON_DIRECT_DEBIT] : w \in Windows }

\* half-hourly telemetry: ascending read times
ReadingLists(times, deltas, n) ==
    { s \in BoundedSeqs([readAt : times, consumptionDelta : deltas], n) :
        \A i \in 1..(Len(s) - 1) : s[i].readAt < s[i + 1].readAt }

TimedReadTimes == {50, 60, 70}
Deltas == {0, 500}

\* tier prices of a banded plan
TierPrices == {7500, 15000, 30000, 40000}
TierRates ==
    { [valid_from |-> 0, valid_to |-> None, value_inc_vat |-> p,
       payment_method |-> DIRECT_DEBIT] : p \in TierPrices }
    \cup
    { [valid_from |-> 0, valid_to |-> None, value_inc_vat |-> p,
       payment_method |-> NON_DIRECT_DEBIT] : p \in {5000, 50000} }

\* the three tiers of a banded plan, as the API may list them
ThreeTiers == [i \in 1..3 |->
    [valid_from |-> 0, valid_to |-> None,
     value_inc_vat |-> <<15000, 7500, 30000>>[i],
     payment_method |-> DIRECT_DEBIT]]

\* local clock times around every band edge
BandClockTimes == {0, 1, 6, 8, 10, 11, 14, 24, 26, 31, 32, 37, 38, 44, 47}

NotCalled ==
    [done |-> FALSE, raised |-> FALSE, total |-> None, time_of_day |-> FALSE,
     applicable_rates |-> <<>>, sorted_rates |-> <<>>, matching_rate |-> <<>>]

InitCalc ==
    /\ analysis_date \in AnalysisDates
    /\ uk_offset \in UkOffsets
    /\ standing_charge \in StandingCharges
    /\ \/ /\ tariff_name \in Range(TARIFFS_TO_COMPARE)
          /\ unit_rates \in BoundedSeqs(TimedRates, MaxRates)
          /\ consumption_data \in ReadingLists(TimedReadTimes, Deltas, MaxReadings)
       \/ /\ tariff_name \in {"Octopus Go", "Cosy Octopus"}
          /\ unit_rates \in DistinctSeqs(TierRates, MaxTierRates)
          /\ consumption_data \in
                { << [readAt |-> start_of_day_utc(analysis_date, uk_offset) + t,
                      consumptionDelta |-> 500] >> : t \in BandClockTimes }
       \/ /\ tariff_name \in {"Octopus Go", "Cosy Octopus"}
          /\ unit_rates = ThreeTiers
          /\ consumption_data \in ReadingLists(TimedReadTimes, Deltas, MaxReadings)
    /\ calc = NotCalled
    /\ Idle
    /\ NoCalls

Calculate ==
    /\ ~calc.done
    /\ calc' = [done |-> TRUE] @@
               calculate_cost_for_consumption(consumption_data, unit_rates,
                   standing_charge, analysis_date, tariff_name, uk_offset)
    /\ UNCHANGED <<tariff_name, unit_rates, standing_charge, uk_offset>>
    /\ UNCHANGED <<run_vars, coordinator_vars>>
    /\ UNCHANGED <<classifier_vars, rates_vars, resolver_vars, entity_vars>>

NextCalc == Calculate

SpecCalc == InitCalc /\ [][NextCalc]_vars


-----------------------------------------------------------------------------
(* The coordinator's updates: each one runs get_tariff_data against an API  *)
(* whose answers are drawn from the sets below.                             *)

MaxUpdates == 2

Rate(from, to, price, method) ==
    [valid_from |-> from, valid_to |-> to, value_inc_vat |-> price,
     payment_method |-> method]

\* the unit rates of each plan for day 1 (UTC 48..96) and the day after
GoodRates(tariff) ==
    CASE tariff = "Agile Octopus" ->
           << Rate(48, 60, 20000, DIRECT_DEBIT), Rate(60, 72, 30000, DIRECT_DEBIT),
              Rate(72, 96, 15000, DIRECT_DEBIT) >>
      [] tariff = "Octopus Go" ->
           << Rate(59, 97, 30000, DIRECT_DEBIT), Rate(49, 59, 7500, DIRECT_DEBIT),
              Rate(11, 49, 30000, DIRECT_DEBIT) >>
      [] tariff = "Cosy Octopus" ->
           << Rate(48, 56, 25000, DIRECT_DEBIT), Rate(56, 62, 12000, DIRECT_DEBIT),
              Rate(62, 80, 25000, DIRECT_DEBIT), Rate(80, 86, 40000, DIRECT_DEBIT),
              Rate(86, 104, 25000, DIRECT_DEBIT) >>
      [] tariff = "Flexible Octopus" ->
           << Rate(0, None, 24863, DIRECT_DEBIT),
              Rate(0, None, 26100, NON_DIRECT_DEBIT) >>

\* a rate whose valid_from is null
NullFrom(method) == Rate(None, None, 21000, method)

Product(name, code) ==
    [display_name |-> name, direction |-> "IMPORT", code |-> code,
     self_link |-> TRUE]

Catalog ==
    << Product("Agile Octopus", "AGILE-24-10-01"),
       Product("Octopus Go", "GO-VAR-22-10-14"),
       Product("Cosy Octopus", "COSY-22-12-08"),
       Product("Flexible Octopus", "VAR-22-11-01") >>

Block(charge) ==
    [standing_charge_inc_vat |-> charge,
     links |-> << [rel |-> "standard_unit_rates",
                   href |-> "direct_debit_monthly/standard-unit-rates/"] >>]

Reachable(tariff) ==
    [unreachable |-> {},
     products |-> Catalog,
     regions |-> (region_code_key("C") :>
                    [direct_debit_monthly |-> <<Block(45000)>>, varying |-> <<>>]),
     unit_rates |-> GoodRates(tariff)]

\* what the REST API may answer for each plan: all is well, or the plan's
\* resolution fails, or its rates are empty or carry a null valid_from
PlanWorlds(tariff) ==
    CASE tariff = "Agile Octopus" ->
           { Reachable(tariff),
             [Reachable(tariff) EXCEPT !.unit_rates =
                 << Rate(0, None, 25000, NON_DIRECT_DEBIT),
                    NullFrom(NON_DIRECT_DEBIT) >>],
             [Reachable(tariff) EXCEPT !.unit_rates =
                 Append(GoodRates(tariff), NullFrom(DIRECT_DEBIT))] }
      [] tariff = "Octopus Go" ->
           { Reachable(tariff),
             [Reachable(tariff) EXCEPT !.regions =
                 (region_code_key("C") :>
                    [direct_debit_monthly |-> <<>>, varying |-> <<>>])] }
      [] tariff = "Cosy Octopus" ->
           { Reachable(tariff),
             [Reachable(tariff) EXCEPT !.unreachable = {"unit_rates"}],
             [Reachable(tariff) EXCEPT !.unit_rates = <<>>] }
      [] tariff = "Flexible Octopus" ->
           { Reachable(tariff),
             [Reachable(tariff) EXCEPT !.products = SubSeq(Catalog, 1, 3)] }

\* the telemetry of day 1 so far: none yet, or two half-hours
Telemetry ==
    { <<>>,
      << [readAt |-> 50, consumptionDelta |-> 500],
         [readAt |-> 70, consumptionDelta |-> 300] >> }

Clocks == { [slot |-> 70, on_the_second |-> FALSE] }

Init ==
    /\ tariff_name = "Agile Octopus"
    /\ unit_rates = <<>>
    /\ standing_charge = 0
    /\ calc = NotCalled
    /\ consumption_data = <<>>
    /\ analysis_date = 0
    /\ uk_offset \in UkOffsets
    /\ Idle
    /\ NoCalls

\* the coordinator calls _async_update_data, which calls get_tariff_data
Poll ==
    /\ pc = "idle"
    /\ updates < MaxUpdates
    /\ pc' = "token"
    /\ clock' \in Clocks
    /\ fetch' = NotFetched
    /\ consumption_data' = <<>>
    /\ plan' = 0
    /\ served' = <<>>
    /\ outcome' = <<>>
    /\ tariff_costs' =
          new_dicts([tariff_costs |-> tariff_costs,
                     tariff_rates |-> tariff_rates]).tariff_costs
    /\ tariff_rates' =
          new_dicts([tariff_costs |-> tariff_costs,
                     tariff_rates |-> tariff_rates]).tariff_rates
    /\ issued' = <<>>
    /\ returned' = NotReturned
    /\ UNCHANGED <<analysis_date, kraken_token, account_info>>
    /\ UNCHANGED <<calc_vars, uk_offset, coordinator_vars>>
    /\ UNCHANGED <<classifier_vars, rates_vars, resolver_vars, entity_vars>>

\* api.py 585-587: log and re-raise
Raise ==
    /\ pc' = "raised"
    /\ returned' = Exception

\* api.py 521: _obtain_kraken_token returns a token or raises
ObtainKrakenToken ==
    /\ pc = "token"
    /\ issued' = Append(issued, "token")
    /\ \/ /\ kraken_token' = "token"
          /\ fetch' = [fetch EXCEPT !.token = "ok"]
          /\ pc' = "account"
          /\ UNCHANGED returned
       \/ /\ fetch' = [fetch EXCEPT !.token = "failed"]
          /\ Raise
          /\ UNCHANGED kraken_token
    /\ UNCHANGED <<consumption_data, analysis_date, clock, account_info, plan,
                   served, outcome, tariff_costs, tariff_rates>>
    /\ UNCHANGED <<calc_vars, uk_offset, coordinator_vars>>
    /\ UNCHANGED <<classifier_vars, rates_vars, resolver_vars, entity_vars>>

\* api.py 524: _get_account_info returns the account or raises
GetAccountInfo ==
    /\ pc = "account"
    /\ issued' = Append(issued, "account")
    /\ \/ /\ account_info' =
                [tariff_code |-> "E-1R-AGILE-24-10-01-C",
                 region_code |-> region_code_of("E-1R-AGILE-24-10-01-C"),
                 device_id |-> "device"]
          /\ fetch' = [fetch EXCEPT !.account = "ok"]
          /\ pc' = "telemetry"
          /\ UNCHANGED returned
       \/ /\ fetch' = [fetch EXCEPT !.account = "failed"]
          /\ Raise
          /\ UNCHANGED account_info
    /\ UNCHANGED <<consumption_data, analysis_date, clock, kraken_token, plan,
                   served, outcome, tariff_costs, tariff_rates>>
    /\ UNCHANGED <<calc_vars, uk_offset, coordinator_vars>>
    /\ UNCHANGED <<classifier_vars, rates_vars, resolver_vars, entity_vars>>

\* api.py 527-531: _get_consumption_data returns the readings or raises; with
\* no readings get_tariff_data returns {} at once
GetConsumptionData ==
    /\ pc = "telemetry"
    /\ issued' = Append(issued, "telemetry")
    /\ \/ \E readings \in Telemetry :
             /\ consumption_data' = readings
             /\ analysis_date' = today_uk(clock, uk_offset)
             /\ fetch' = [fetch EXCEPT !.telemetry = "ok"]
             /\ IF no_consumption(readings)
                THEN /\ pc' = "returned"
                     /\ returned' = EmptyResult
                     /\ UNCHANGED plan
                ELSE /\ pc' = "plans"
                     /\ plan' = 1
                     /\ UNCHANGED returned
       \/ /\ fetch' = [fetch EXCEPT !.telemetry = "failed"]
          /\ Raise
          /\ UNCHANGED <<consumption_data, analysis_date, plan>>
    /\ UNCHANGED <<clock, kraken_token, account_info, served, outcome,
                   tariff_costs, tariff_rates>>
    /\ UNCHANGED <<calc_vars, uk_offset, coordinator_vars>>
    /\ UNCHANGED <<classifier_vars, rates_vars, resolver_vars, entity_vars>>

\* api.py 546-575: one iteration of the loop, for the plan at index plan
ComparePlan ==
    /\ pc = "plans"
    /\ plan <= Len(TARIFFS_TO_COMPARE)
    /\ \E rest \in PlanWorlds(TARIFFS_TO_COMPARE[plan]) :
          LET step == compare_plan(TARIFFS_TO_COMPARE[plan], rest,
                          [tariff_costs |-> tariff_costs,
                           tariff_rates |-> tariff_rates],
                          consumption_data, account_info.region_code,
                          analysis_date, uk_offset, clock)
          IN  /\ served' = Append(served, rest)
              /\ outcome' = Append(outcome, step.outcome)
              /\ tariff_costs' = step.dicts.tariff_costs
              /\ tariff_rates' = step.dicts.tariff_rates
              /\ issued' = issued \o step.requests
    /\ plan' = plan + 1
    /\ UNCHANGED <<consumption_data, analysis_date, pc, clock, fetch,
                   kraken_token, account_info, returned>>
    /\ UNCHANGED <<calc_vars, uk_offset, coordinator_vars>>
    /\ UNCHANGED <<classifier_vars, rates_vars, resolver_vars, entity_vars>>

\* api.py 577-583: the loop is over
ReturnResult ==
    /\ pc = "plans"
    /\ plan > Len(TARIFFS_TO_COMPARE)
    /\ pc' = "returned"
    /\ returned' = comparison_result(account_info, consumption_data,
                                     tariff_rates, tariff_costs)
    /\ UNCHANGED <<consumption_data, analysis_date, clock, fetch, kraken_token,
                   account_info, plan, served, outcome, tariff_costs,
                   tariff_rates, issued>>
    /\ UNCHANGED <<calc_vars, uk_offset, coordinator_vars>>
    /\ UNCHANGED <<classifier_vars, rates_vars, resolver_vars, entity_vars>>

\* coordinator.py 33-45: _async_update_data returns the data or raises
\* UpdateFailed (what the rates event entities make of the published data is
\* followed under SpecEvents)
UpdateData ==
    /\ pc \in {"returned", "raised"}
    /\ pc' = "idle"
    /\ update' = async_update_data(returned, data).update
    /\ data' = async_update_data(returned, data).data
    /\ updates' = updates + 1
    /\ UNCHANGED <<consumption_data, analysis_date, clock, fetch, kraken_token,
                   account_info, plan, served, outcome, tariff_costs,
                   tariff_rates, issued, returned>>
    /\ UNCHANGED <<calc_vars, uk_offset>>
    /\ UNCHANGED <<classifier_vars, rates_vars, resolver_vars, entity_vars>>

Next ==
    \/ Poll
    \/ ObtainKrakenToken
    \/ GetAccountInfo
    \/ GetConsumptionData
    \/ ComparePlan
    \/ ReturnResult
    \/ UpdateData

Spec == Init /\ [][Next]_vars

-----------------------------------------------------------------------------
(* Properties of a comparison run, checked under Spec *)

Plans == 1..Len(TARIFFS_TO_COMPARE)
PlanKeys == { tariff_key(TARIFFS_TO_COMPARE[i]) : i \in Plans }
RestRequests == {"products", "detail", "unit_rates"}
Failed == {"resolve_raised", "calculate_raised", "format_raised"}

\* the dicts after the first n plans of a run of the same readings, account
\* and clock in which every plan resolves and no stage raises
RECURSIVE run_without_failure(_)
run_without_failure(n) ==
    IF n = 0 THEN [tariff_costs |-> EmptyDict, tariff_rates |-> EmptyDict]
    ELSE compare_plan(TARIFFS_TO_COMPARE[n], Reachable(TARIFFS_TO_COMPARE[n]),
             run_without_failure(n - 1), consumption_data,
             account_info.region_code, analysis_date, uk_offset, clock).dicts

InResult(i) ==
    /\ tariff_key(TARIFFS_TO_COMPARE[i]) \in DOMAIN tariff_costs
    /\ tariff_key(TARIFFS_TO_COMPARE[i]) \in DOMAIN tariff_rates

AsIn(whole, i) ==
    LET key == tariff_key(TARIFFS_TO_COMPARE[i])
    IN  /\ tariff_costs[key] = whole.tariff_costs[key]
        /\ tariff_rates[key] = whole.tariff_rates[key]

\* C1: whichever plans fail, a run that got its readings never raises, and
\* from the moment a plan succeeds to the returned result its cost and its
\* timeline are those of the run in which no plan fails
C1_FailureLeavesOtherPlans ==
    /\ LET whole == run_without_failure(Len(TARIFFS_TO_COMPARE))
       IN  \A i \in DOMAIN outcome :
              outcome[i] = "ok" => InResult(i) /\ AsIn(whole, i)
    /\ outcome # <<>> => pc # "raised"
    /\ (pc = "returned" /\ outcome # <<>>) =>
          /\ returned.kind = "result"
          /\ returned.tariff_costs = tariff_costs
          /\ returned.tariff_rates = tariff_rates

\* the first and third plan fail (calculation, resolution), the second and
\* fourth are in the returned result
C1_Witness ==
    /\ pc = "returned"
    /\ outcome = <<"calculate_raised", "ok", "resolve_raised", "ok">>
    /\ returned.kind = "result"
    /\ tariff_key("Octopus Go") \in DOMAIN returned.tariff_costs
    /\ tariff_key("Flexible Octopus") \in DOMAIN returned.tariff_rates

\* C2: a plan one of whose three stages raised has neither a cost nor a
\* timeline, so in a returned result the plans with a cost are the plans
\* with a timeline
C2_FailedPlanExcluded ==
    /\ \A i \in DOMAIN outcome :
          outcome[i] \in Failed =>
             /\ tariff_key(TARIFFS_TO_COMPARE[i]) \notin DOMAIN tariff_costs
             /\ tariff_key(TARIFFS_TO_COMPARE[i]) \notin DOMAIN tariff_rates
    /\ (pc = "returned" /\ returned.kind = "result") =>
          DOMAIN returned.tariff_costs \cap PlanKeys
             = DOMAIN returned.tariff_rates

\* C3: once the telemetry came back with no readings the run is over with
\* the empty result: nothing raised, no plan compared and no request to the
\* product catalog, a tariff's detail or its unit rates
C3_NoReadingsEmptyResult ==
    (fetch.telemetry = "ok" /\ Len(consumption_data) = 0) =>
       /\ pc \in {"returned", "idle"}
       /\ returned = EmptyResult
       /\ outcome = <<>>
       /\ Range(issued) \cap RestRequests = {}
       /\ pc = "idle" => update = "success" /\ data = EmptyResult

C3_Witness ==
    /\ pc = "returned"
    /\ fetch.telemetry = "ok"
    /\ consumption_data = <<>>
    /\ returned = EmptyResult
    /\ issued = <<"token", "account", "telemetry">>

\* C4: once the token, the account or the telemetry failed the run is over
\* with an exception: no result, no plan compared, no request for a plan,
\* and the coordinator's update ends in UpdateFailed
C4_FetchFailureAborts ==
    (\E f \in DOMAIN fetch : fetch[f] = "failed") =>
       /\ pc \in {"raised", "idle"}
       /\ returned = Exception
       /\ outcome = <<>>
       /\ Range(issued) \cap RestRequests = {}
       /\ pc = "idle" => update = "UpdateFailed" /\ data.kind # "raised"

\* the telemetry fails in the update after a successful one
C4_Witness ==
    /\ pc = "idle"
    /\ fetch.telemetry = "failed"
    /\ update = "UpdateFailed"
    /\ data.kind = "result"

\* what the resolver handed the loop for the i-th plan of this run
Resolved(i) ==
    get_potential_tariff_rates(TARIFFS_TO_COMPARE[i], account_info.region_code,
                               served[i])

\* the cost and the timeline this run computes for its i-th plan
CostNow(i) ==
    calculate_cost_for_consumption(consumption_data, Resolved(i).unit_rates,
        Resolved(i).standing_charge, analysis_date, TARIFFS_TO_COMPARE[i],
        uk_offset).total
TimelineNow(i) == format_rates_for_event(Resolved(i).unit_rates, clock).rates

\* C23: the figures published for a plan come only from the latest
\* successful run: a cost or a timeline held by a run, and by the result it
\* returns, is the one this run computed for a plan it got that far with,
\* never one of an earlier run; a successful update publishes the run's
\* result as it is; and the cost sensor of a plan reports None whenever the
\* published result is the empty one (or there is none yet) or lacks the
\* plan's key, and the published cost otherwise.
C23_FiguresOfLatestRun ==
    /\ \A i \in Plans :
          LET key == tariff_key(TARIFFS_TO_COMPARE[i])
          IN  /\ key \in DOMAIN tariff_costs =>
                    /\ i \in DOMAIN outcome
                    /\ outcome[i] \notin {"resolve_raised", "no_rates",
                                          "calculate_raised"}
                    /\ tariff_costs[key] = CostNow(i)
              /\ key \in DOMAIN tariff_rates =>
                    /\ i \in DOMAIN outcome
                    /\ outcome[i] \in {"ok", "current_rate_raised"}
                    /\ tariff_rates[key] = TimelineNow(i)
    /\ (pc = "returned" /\ returned.kind = "result") =>
          /\ returned.tariff_costs = tariff_costs
          /\ returned.tariff_rates = tariff_rates
    /\ (pc = "idle" /\ update = "success") => data = returned
    /\ \A key \in PlanKeys :
          IF data.kind \in {"None", "empty"} \/ key \notin DOMAIN data.tariff_costs
          THEN native_value(data, key) = None
          ELSE native_value(data, key) = round_gbp_2dp(data.tariff_costs[key])

\* the first update published a cost for the first plan and the sensor
\* reports it; the second run returns a result without the plan, on which
\* the plan's sensor reports None while another plan's reports its cost
C23_Witness ==
    /\ pc = "returned"
    /\ updates = 1
    /\ data.kind = "result"
    /\ native_value(data, tariff_key("Agile Octopus")) # None
    /\ returned.kind = "result"
    /\ tariff_key("Agile Octopus") \notin DOMAIN returned.tariff_costs
    /\ native_value(returned, tariff_key("Agile Octopus")) = None
    /\ native_value(returned, tariff_key("Octopus Go")) # None

-----------------------------------------------------------------------------
(* Properties of the calculator, checked under SpecCalc *)

Returned == calc.done /\ ~calc.raised

\* the distinct prices of the intervals a banded plan selects: the
\* direct-debit ones, or all of them when none is direct-debit
SelectedPrices ==
    LET dd == { r \in Range(unit_rates) : r.payment_method = DIRECT_DEBIT }
    IN  { r.value_inc_vat : r \in (IF dd = {} THEN Range(unit_rates) ELSE dd) }

Timestamped(name) == name \in {"Agile Octopus", "Flexible Octopus"}

Billed(i) == consumption_data[i].consumptionDelta \notin {0, None}

CoversDay(r) ==
    /\ r.valid_from <= start_of_day_utc(analysis_date, uk_offset)
    /\ (r.valid_to = None \/ r.valid_to >= end_of_day_utc(analysis_date, uk_offset))

FlatPlan ==
    /\ Timestamped(tariff_name)
    /\ Len(unit_rates) = 1
    /\ CoversDay(unit_rates[1])
    /\ \A i, j \in DOMAIN consumption_data :
          consumption_data[i].consumptionDelta = consumption_data[j].consumptionDelta

\* C5: a timestamped plan with one interval covering the whole analysis day at
\* price P, standing charge C and N readings of D Wh each costs
\* N * (D/1000) * P + C: the standing charge is added once, whatever N is.
C5_FlatPlanTotal ==
    (calc.done /\ FlatPlan) =>
        /\ ~calc.raised
        /\ calc.total =
              SumSeq([i \in DOMAIN consumption_data |->
                         consumption_data[i].consumptionDelta
                           * unit_rates[1].value_inc_vat])
              + 1000 * standing_charge

C5_Witness ==
    /\ calc.done /\ FlatPlan
    /\ Len(consumption_data) = 2
    /\ consumption_data[1].consumptionDelta = 500
    /\ calc.total = 2 * 500 * unit_rates[1].value_inc_vat + 1000 * standing_charge

\* the selected intervals that start strictly before instant t
StartedBefore(t) ==
    { r \in Range(calc.applicable_rates) : r.valid_from < t }

Latest(S) == { r \in S : \A q \in S : q.valid_from <= r.valid_from }
Earliest(S) == { r \in S : \A q \in S : r.valid_from <= q.valid_from }

\* C6: in timestamped mode a reading with nonzero consumption is charged the
\* price of the selected interval with the greatest valid_from strictly before
\* the reading's end (never one that starts at the reading's end when an
\* earlier one exists), and the earliest selected interval's price when no
\* selected interval starts before the reading.
C6_StrictlyEarlierRate ==
    (Returned /\ ~calc.time_of_day) =>
        \A i \in DOMAIN consumption_data :
            Billed(i) =>
                LET t == consumption_data[i].readAt
                    from == IF StartedBefore(t) # {}
                            THEN Latest(StartedBefore(t))
                            ELSE Earliest(Range(calc.applicable_rates))
                IN  /\ from # {} =>
                          \E r \in from : calc.matching_rate[i] = r.value_inc_vat
                    /\ from = {} => calc.matching_rate[i] = None

C6_Witness ==
    /\ Returned /\ ~calc.time_of_day
    /\ \E i \in DOMAIN consumption_data :
          /\ Billed(i)
          /\ \E a, b \in Range(calc.applicable_rates) :
                /\ a.valid_from < consumption_data[i].readAt
                /\ b.valid_from = consumption_data[i].readAt
                /\ a.value_inc_vat # b.value_inc_vat
                /\ calc.matching_rate[i] = a.value_inc_vat

ActiveInDay(r) ==
    /\ r.valid_from < end_of_day_utc(analysis_date, uk_offset)
    /\ (r.valid_to = None \/ r.valid_to > start_of_day_utc(analysis_date, uk_offset))

\* C7: in timestamped mode every interval used for rate lookup is active
\* during the analysis day (starts before the day's end, and has no end or
\* ends after the day's start), whether the direct-debit subset or the
\* any-payment-method fallback is used.
C7_SelectedActiveInDay ==
    (Returned /\ ~calc.time_of_day) =>
        \A r \in Range(calc.applicable_rates) : ActiveInDay(r)

InNightBand(i) ==
    LET t == LocalTime(consumption_data[i].readAt, uk_offset)
    IN  1 <= t /\ t < 11

\* C8: for Octopus Go with at least two distinct prices among the selected
\* intervals, a nonzero reading whose local end time is in [00:30, 05:30) is
\* charged the minimum distinct price and any other the maximum, in every
\* order of the interval list.
C8_GoMinMax ==
    (Returned /\ tariff_name = "Octopus Go" /\ Cardinality(SelectedPrices) >= 2) =>
        \A i \in DOMAIN consumption_data :
            Billed(i) =>
                calc.matching_rate[i] =
                    IF InNightBand(i) THEN Min(SelectedPrices)
                    ELSE Max(SelectedPrices)

C8_Witness ==
    /\ Returned /\ tariff_name = "Octopus Go"
    /\ Cardinality(SelectedPrices) >= 3
    /\ unit_rates[1].payment_method = DIRECT_DEBIT
    /\ unit_rates[1].value_inc_vat = Max(SelectedPrices)
    /\ \E i \in DOMAIN consumption_data :
          Billed(i) /\ InNightBand(i) /\ calc.matching_rate[i] = Min(SelectedPrices)

InPeakBand(i) ==
    LET t == LocalTime(consumption_data[i].readAt, uk_offset)
    IN  32 <= t /\ t < 38

InCosyBand(i) ==
    LET t == LocalTime(consumption_data[i].readAt, uk_offset)
    IN  (8 <= t /\ t < 14) \/ (26 <= t /\ t < 32) \/ (44 <= t)

\* C9: for Cosy Octopus with at least three distinct prices among the selected
\* intervals, peak-band readings are charged the most expensive distinct
\* price, cosy-band readings the cheapest, all others a price strictly
\* between the two.
C9_CosyTiers ==
    (Returned /\ tariff_name = "Cosy Octopus" /\ Cardinality(SelectedPrices) >= 3) =>
        \A i \in DOMAIN consumption_data :
            Billed(i) =>
                IF InPeakBand(i)
                THEN calc.matching_rate[i] = Max(SelectedPrices)
                ELSE IF InCosyBand(i)
                THEN calc.matching_rate[i] = Min(SelectedPrices)
                ELSE /\ Min(SelectedPrices) < calc.matching_rate[i]
                     /\ calc.matching_rate[i] < Max(SelectedPrices)

TooFewTiers ==
    \/ tariff_name = "Octopus Go" /\ Cardinality(SelectedPrices) < 2
    \/ tariff_name = "Cosy Octopus" /\ Cardinality(SelectedPrices) < 3

\* what timestamped-mode calculation returns for the same readings, intervals,
\* standing charge and analysis date
TimestampedResult ==
    calculate_cost_for_consumption(consumption_data, unit_rates, standing_charge,
                                   analysis_date, "Agile Octopus", uk_offset)

\* C10: a banded plan whose selected intervals carry fewer distinct prices than
\* its tier count (2 for Octopus Go, 3 for Cosy Octopus) does not raise and
\* returns the total of timestamped-mode calculation on the same arguments.
C10_FallbackToTimestamped ==
    (calc.done /\ TooFewTiers) =>
        /\ ~calc.raised
        /\ ~calc.time_of_day
        /\ calc.total = TimestampedResult.total

C10_Witness ==
    /\ calc.done /\ ~calc.raised
    /\ tariff_name = "Cosy Octopus"
    /\ Cardinality(SelectedPrices) = 2
    /\ \E i \in DOMAIN consumption_data :
          Billed(i) /\ calc.matching_rate[i] # None
    /\ calc.total = TimestampedResult.total


\* the readings whose consumption is not zero
NonZero(readings) ==
    SelectSeq(readings, LAMBDA r : consumption_wh(r) # 0)

\* C11: the calculator's total is the total of the same call on the readings
\* with nonzero consumption alone, so zero-consumption readings can be added
\* or removed freely; no rate is looked up for them, and a list of nothing
\* but zero-consumption readings costs the standing charge, whatever the
\* plan and the interval list (the empty one too)
C11_ZeroReadingsSkipped ==
    calc.done =>
        /\ ~calc.raised
        /\ calc.total =
              calculate_cost_for_consumption(NonZero(consumption_data),
                  unit_rates, standing_charge, analysis_date, tariff_name,
                  uk_offset).total
        /\ \A i \in DOMAIN consumption_data :
              ~Billed(i) => calc.matching_rate[i] = None
        /\ NonZero(consumption_data) = <<>> =>
              calc.total = 1000 * standing_charge

\* a zero-consumption reading next to a billed one, under rates that would
\* have priced it
C11_Witness ==
    /\ calc.done
    /\ unit_rates # <<>>
    /\ Len(consumption_data) = 2
    /\ ~Billed(1) /\ Billed(2)
    /\ calc.matching_rate[2] # None
    /\ calc.total = 500 * calc.matching_rate[2] + 1000 * standing_charge


-----------------------------------------------------------------------------
(* The classifier on its own: one call of _is_time_in_period,               *)
(* _get_go_rate_for_time or _get_cosy_rate_for_time.                        *)

\* every half-hour of the local day
ClockTimes == 0..(SlotsPerDay - 1)

\* where a period may start and end: midnight and the edges of the bands
PeriodEdges == {0, 1, 8, 11, 14, 26, 32, 38, 44, 47}

\* the prices handed to the classifier, one per tier
Tiers == [day |-> 25000, cosy |-> 12000, night |-> 7500, peak |-> 40000]

InitClock ==
    /\ check_time \in ClockTimes
    /\ period \in PeriodEdges \X PeriodEdges
    /\ classified = NotClassified
    /\ timeline = NotFormatted
    /\ current_rate = NotLookedUp
    /\ tariff_name = "Agile Octopus"
    /\ unit_rates = <<>>
    /\ standing_charge = 0
    /\ calc = NotCalled
    /\ consumption_data = <<>>
    /\ analysis_date = 0
    /\ uk_offset = 0
    /\ Idle
    /\ NoResolve

\* what every call of the classifier leaves alone
ClassifierFrame ==
    /\ UNCHANGED <<check_time, period, rates_vars, resolver_vars, entity_vars>>
    /\ UNCHANGED <<calc_vars, uk_offset, run_vars, coordinator_vars>>

IsTimeInPeriod ==
    /\ classified.op = ""
    /\ classified' =
          [op |-> "is_time_in_period",
           value |-> is_time_in_period(check_time, period[1], period[2])]
    /\ ClassifierFrame

GetGoRateForTime ==
    /\ classified.op = ""
    /\ classified' =
          [op |-> "get_go_rate_for_time",
           value |-> get_go_rate_for_time(check_time, Tiers.day, Tiers.night)]
    /\ ClassifierFrame

GetCosyRateForTime ==
    /\ classified.op = ""
    /\ classified' =
          [op |-> "get_cosy_rate_for_time",
           value |-> get_cosy_rate_for_time(check_time, Tiers.day, Tiers.cosy,
                                            Tiers.peak)]
    /\ ClassifierFrame

NextClock ==
    \/ IsTimeInPeriod
    \/ GetGoRateForTime
    \/ GetCosyRateForTime

SpecClock == InitClock /\ [][NextClock]_vars

-----------------------------------------------------------------------------
(* Properties of the classifier, checked under SpecClock *)

\* the clock times from a up to, not including, b
Upto(a, b) == { t \in ClockTimes : a <= t /\ t < b }

\* C12: a period with start < end holds the times start <= t < end; a period
\* with start >= end wraps past midnight and holds the times t >= start and
\* the times t < end
C12_PeriodMembership ==
    classified.op = "is_time_in_period" =>
        LET start == period[1]
            end == period[2]
        IN  /\ start < end =>
                 (classified.value <=> check_time \in Upto(start, end))
            /\ start >= end =>
                 (classified.value <=>
                     check_time \in Upto(start, SlotsPerDay) \cup Upto(0, end))

\* the end of a wrapping period is outside it
C12_Witness ==
    /\ classified.op = "is_time_in_period"
    /\ period = <<44, 1>>
    /\ check_time = 1
    /\ classified.value = FALSE

\* the peak band and the cosy bands, in the order they are tested
CosyBands == << <<COSY_PEAK_START, COSY_PEAK_END>> >> \o COSY_PERIODS

BandsHolding(t) ==
    { i \in DOMAIN CosyBands :
        is_time_in_period(t, CosyBands[i][1], CosyBands[i][2]) }

\* C13: every clock time lies in at most one of the four bands and gets one
\* tier: peak in [16:00, 19:00), cosy in [04:00, 07:00), [13:00, 16:00) and
\* [22:00, 24:00), day everywhere else
C13_CosyOneTier ==
    classified.op = "get_cosy_rate_for_time" =>
        /\ Cardinality(BandsHolding(check_time)) <= 1
        /\ classified.value =
              IF check_time \in Upto(32, 38) THEN Tiers.peak
              ELSE IF check_time \in Upto(8, 14) \cup Upto(26, 32) \cup Upto(44, 48)
              THEN Tiers.cosy
              ELSE Tiers.day

\* 16:00, the end of a cosy band and the start of the peak band, is peak
C13_Witness ==
    /\ classified.op = "get_cosy_rate_for_time"
    /\ check_time = 32
    /\ classified.value = Tiers.peak
    /\ BandsHolding(check_time) = {1}


-----------------------------------------------------------------------------
(* The normalizer, the current-rate lookup and the calculator on one list  *)
(* of unit rates: one call of _format_rates_for_event or _get_current_rate *)
(* at the instant clock, and one of _calculate_cost_for_consumption for    *)
(* the day clock lies in.                                                  *)

\* now: inside a half-hour of day 1, inside the first second of that
\* half-hour, and inside an earlier half-hour
Nows ==
    { [slot |-> 70, on_the_second |-> FALSE],
      [slot |-> 70, on_the_second |-> TRUE],
      [slot |-> 65, on_the_second |-> FALSE] }

\* [valid_from, valid_to) windows around now: open-ended from day 0, ended
\* with day 0, ended before now, ending at 70, open-ended from before now,
\* starting at 70, starting with the next UTC day
ListedWindows ==
    { <<0, None>>, <<0, 48>>, <<0, 60>>, <<60, 70>>, <<60, None>>, <<70, None>>,
      <<96, None>> }

\* the price tells the window and the payment method apart; direct-debit
\* prices have a third decimal
ListedPrice(w, method) ==
    20000 + 100 * w[1] + (IF w[2] = None THEN 0 ELSE w[2])
          + (IF method = DIRECT_DEBIT THEN 863 ELSE 0)

ListedRates ==
    { Rate(w[1], w[2], ListedPrice(w, m), m) :
        w \in ListedWindows, m \in {DIRECT_DEBIT, NON_DIRECT_DEBIT} }

InitRates ==
    /\ unit_rates \in DistinctSeqs(ListedRates, MaxRates)
    /\ clock \in Nows
    /\ uk_offset \in UkOffsets
    /\ tariff_name = "Agile Octopus"
    /\ standing_charge \in StandingCharges
    /\ analysis_date = today_uk(clock, uk_offset)
    /\ consumption_data = << [readAt |-> 66, consumptionDelta |-> 500] >>
    /\ calc = NotCalled
    /\ timeline = NotFormatted
    /\ current_rate = NotLookedUp
    /\ check_time = 0
    /\ period = <<0, 0>>
    /\ classified = NotClassified
    /\ pc = "idle"
    /\ fetch = NotFetched
    /\ kraken_token = ""
    /\ account_info = NoAccount
    /\ plan = 0
    /\ served = <<>>
    /\ outcome = <<>>
    /\ tariff_costs = EmptyDict
    /\ tariff_rates = EmptyDict
    /\ issued = <<>>
    /\ returned = NotReturned
    /\ data = NoData
    /\ update = "none"
    /\ updates = 0
    /\ NoEvents
    /\ NoResolve

\* what a call on the list of rates leaves alone
RatesFrame ==
    /\ UNCHANGED <<tariff_name, unit_rates, standing_charge, uk_offset>>
    /\ UNCHANGED <<run_vars, coordinator_vars, classifier_vars, resolver_vars,
                   entity_vars>>

\* _format_rates_for_event(unit_rates), with its locals filtered_rates and
\* sorted_rates
FormatRatesForEvent ==
    /\ ~timeline.done /\ ~current_rate.done
    /\ timeline' =
          [done |-> TRUE,
           raised |-> format_rates_for_event(unit_rates, clock).raised,
           rates |-> format_rates_for_event(unit_rates, clock).rates,
           working |-> IF unit_rates = <<>> THEN <<>>
                       ELSE filtered_rates(unit_rates, clock),
           sorted_rates |->
               IF unit_rates = <<>> THEN <<>>
               ELSE sorted_items(build_rate_map(filtered_rates(unit_rates, clock),
                                     Len(filtered_rates(unit_rates, clock))))]
    /\ UNCHANGED <<calc, current_rate>>
    /\ RatesFrame

\* _get_current_rate(unit_rates)
GetCurrentRate ==
    /\ ~timeline.done /\ ~current_rate.done
    /\ current_rate' = [done |-> TRUE] @@ get_current_rate(unit_rates, clock)
    /\ UNCHANGED <<calc, timeline>>
    /\ RatesFrame

\* _calculate_cost_for_consumption on the same list
CalculateListed ==
    /\ ~timeline.done /\ ~current_rate.done
    /\ Calculate

NextRates ==
    \/ FormatRatesForEvent
    \/ GetCurrentRate
    \/ CalculateListed

SpecRates == InitRates /\ [][NextRates]_vars


-----------------------------------------------------------------------------
(* Properties of the normalizer and the current-rate lookup, checked under *)
(* SpecRates                                                               *)

Formatted == timeline.done /\ unit_rates # <<>>

\* C14: for a non-empty interval list the timeline is a run of half-hour
\* slots, each ending where the next starts, from the start of the
\* normalizer's window to its computed end with none missing: 48 slots for
\* one day, 96 when the next day is included
C14_GaplessTimeline ==
    Formatted =>
        LET slots == timeline.rates
            n == Len(slots)
        IN  /\ ~timeline.raised
            /\ n \in {SlotsPerDay, 2 * SlotsPerDay}
            /\ \A i \in 1..n : slots[i].end = slots[i].start + 1
            /\ \A i \in 1..(n - 1) : slots[i].end = slots[i + 1].start
            /\ slots[1].start = start_of_today(clock)
            /\ slots[n].end = end_time(timeline.sorted_rates, clock)
            /\ n = slots[n].end - slots[1].start

\* the only interval starts inside the day: the slots before it are there
C14_Witness ==
    /\ Formatted
    /\ Len(unit_rates) = 1
    /\ unit_rates[1].valid_from = 70
    /\ Len(timeline.rates) = SlotsPerDay
    /\ timeline.rates[1].start = 48


\* 00:00 Europe/London of the local day now lies in, as a UTC instant
LocalMidnight == start_of_day_utc(today_uk(clock, uk_offset), uk_offset)

\* C15: the timeline starts at local midnight of the current local day and
\* ends at the next local midnight, or a day later if and only if an
\* interval of the working set starts at or after that next local midnight
C15_LocalDayCovered ==
    Formatted =>
        LET slots == timeline.rates
            next_day == \E r \in Range(timeline.working) :
                            r.valid_from >= LocalMidnight + SlotsPerDay
        IN  /\ slots # <<>>
            /\ slots[1].start = LocalMidnight
            /\ slots[Len(slots)].end =
                  LocalMidnight + (IF next_day THEN 2 ELSE 1) * SlotsPerDay


\* valid_to is null or an instant later than now: valid_to is on a
\* half-hour and now lies at or after the start of the half-hour clock.slot
StillValid(r) == r.valid_to = None \/ r.valid_to > clock.slot

DirectDebitStillValid ==
    SelectSeq(unit_rates, LAMBDA r :
        r.payment_method = DIRECT_DEBIT /\ StillValid(r))

AnyStillValid == SelectSeq(unit_rates, StillValid)

\* C16: the working set is the direct-debit intervals with valid_to null or
\* later than now; if there is none, the intervals of any payment method
\* with valid_to null or later than now; if there is none either, the whole
\* input
C16_WorkingSetChain ==
    Formatted =>
        timeline.working =
            IF DirectDebitStillValid # <<>> THEN DirectDebitStillValid
            ELSE IF AnyStillValid # <<>> THEN AnyStillValid
            ELSE unit_rates


\* the selected intervals that start at the instant from
StartingAt(selected, from) ==
    { i \in DOMAIN selected : selected[i].valid_from = from }

\* among several selected intervals with one valid_from of which exactly one
\* is direct-debit, that one's price is the price of the valid_from
DirectDebitWins(selected, sorted_rates) ==
    \A k \in DOMAIN sorted_rates :
        LET same == StartingAt(selected, sorted_rates[k][1])
            dd == { i \in same : selected[i].payment_method = DIRECT_DEBIT }
        IN  (Cardinality(same) > 1 /\ Cardinality(dd) = 1) =>
                \A i \in dd : sorted_rates[k][2] = selected[i].value_inc_vat

\* C17: in the normalizer and in the timestamped calculator, the price kept
\* for a valid_from that several selected intervals share, exactly one of
\* them direct-debit, is the direct-debit one's, in whatever order they come
C17_DirectDebitWinsDuplicates ==
    /\ Formatted =>
          /\ DirectDebitWins(timeline.working, timeline.sorted_rates)
          /\ { timeline.sorted_rates[k][1] : k \in DOMAIN timeline.sorted_rates }
                = { r.valid_from : r \in Range(timeline.working) }
    /\ (Returned /\ ~calc.time_of_day) =>
          /\ DirectDebitWins(calc.applicable_rates, calc.sorted_rates)
          /\ { calc.sorted_rates[k][1] : k \in DOMAIN calc.sorted_rates }
                = { r.valid_from : r \in Range(calc.applicable_rates) }

\* the direct-debit interval comes first and the other one, with the same
\* valid_from, after it; both calls selected both
C17_Witness ==
    /\ Formatted /\ Returned
    /\ Len(unit_rates) = 2
    /\ unit_rates[1].payment_method = DIRECT_DEBIT
    /\ unit_rates[2].payment_method = NON_DIRECT_DEBIT
    /\ unit_rates[1].valid_from = unit_rates[2].valid_from
    /\ timeline.working = unit_rates
    /\ calc.applicable_rates = unit_rates
    /\ timeline.sorted_rates = << <<0, unit_rates[1].value_inc_vat>> >>
    /\ calc.sorted_rates = << <<0, unit_rates[1].value_inc_vat>> >>


\* the working-set intervals that start at or before instant t
StartedBy(t) == { r \in Range(timeline.working) : r.valid_from <= t }

\* C18: every half-hour step of the window carries the price, in GBP, of a
\* working-set interval with the greatest valid_from at or before the
\* step's start, or of an earliest working-set interval when none starts
\* that early; no step is left without a price
C18_StepPrice ==
    Formatted =>
        LET slots == timeline.rates
        IN  /\ slots # <<>>
            /\ Len(slots) = slots[Len(slots)].end - slots[1].start
            /\ \A k \in DOMAIN slots :
                  LET from == IF StartedBy(slots[k].start) # {}
                              THEN Latest(StartedBy(slots[k].start))
                              ELSE Earliest(Range(timeline.working))
                  IN  \E r \in from :
                         slots[k].value_inc_vat = 10 * r.value_inc_vat

\* the step that starts with an interval carries that interval's price, the
\* step before it the earlier interval's
C18_Witness ==
    /\ Formatted
    /\ { r.valid_from : r \in Range(timeline.working) } = {60, 70}
    /\ \E a, b \in Range(timeline.working) :
          /\ a.valid_from = 60 /\ b.valid_from = 70
          /\ timeline.rates[1].value_inc_vat = 10 * a.value_inc_vat
          /\ timeline.rates[22].start = 69
          /\ timeline.rates[22].value_inc_vat = 10 * a.value_inc_vat
          /\ timeline.rates[23].start = 70
          /\ timeline.rates[23].value_inc_vat = 10 * b.value_inc_vat


LookedUp == current_rate.done /\ unit_rates # <<>>

\* valid_from is not later than now: valid_from is on a half-hour and now
\* lies at or after the start of the half-hour clock.slot
Started(r) == r.valid_from <= clock.slot

\* the direct-debit intervals with no end that have started
OpenEndedStarted ==
    { r \in Range(unit_rates) :
        r.payment_method = DIRECT_DEBIT /\ r.valid_to = None /\ Started(r) }

\* the price of r as _get_current_rate returns it: in pence, to two decimals
Returns(r) == current_rate.value = round_2dp(r.value_inc_vat)

\* C19: with a direct-debit interval that has no end and has started in the
\* list, the lookup returns the price of the latest-starting such interval
C19_LatestOpenEndedDirectDebit ==
    (LookedUp /\ OpenEndedStarted # {}) =>
        /\ ~current_rate.raised
        /\ \E r \in Latest(OpenEndedStarted) : Returns(r)

\* the intervals valid now, of any payment method
ValidNow == { r \in Range(unit_rates) : Started(r) /\ StillValid(r) }

DirectDebitValidNow == { r \in ValidNow : r.payment_method = DIRECT_DEBIT }

\* C20: with no started open-ended direct-debit interval, the lookup returns
\* the price of an interval valid now, of a direct-debit one if there is
\* one, and None exactly when no interval is valid now
C20_ValidNowPrefersDirectDebit ==
    (LookedUp /\ OpenEndedStarted = {}) =>
        /\ ~current_rate.raised
        /\ current_rate.value = None <=> ValidNow = {}
        /\ ValidNow # {} =>
              \E r \in (IF DirectDebitValidNow # {} THEN DirectDebitValidNow
                        ELSE ValidNow) : Returns(r)


\* the interval holds at instant t: t lies in [valid_from, valid_to)
HoldsAt(r, t) == r.valid_from <= t /\ (r.valid_to = None \/ t < r.valid_to)

\* two intervals share an instant
Overlap(a, b) ==
    /\ (b.valid_to = None \/ a.valid_from < b.valid_to)
    /\ (a.valid_to = None \/ b.valid_from < a.valid_to)

\* the listed intervals are all direct-debit, no two of them overlap and
\* together they hold at every step of the emitted window
DirectDebitCover ==
    /\ \A i \in DOMAIN unit_rates : unit_rates[i].payment_method = DIRECT_DEBIT
    /\ \A i, j \in DOMAIN unit_rates :
          i # j => ~Overlap(unit_rates[i], unit_rates[j])
    /\ \A k \in DOMAIN timeline.rates :
          \E i \in DOMAIN unit_rates : HoldsAt(unit_rates[i], timeline.rates[k].start)

\* C24: when the listed intervals are all direct-debit, do not overlap and
\* cover the whole window, every step of the timeline carries the price, in
\* GBP, of the interval that holds at the step's start, the steps of the
\* current day before now included
C24_SlotCarriesHoldingPrice ==
    (Formatted /\ DirectDebitCover) =>
        \A k \in DOMAIN timeline.rates :
            \A i \in DOMAIN unit_rates :
                HoldsAt(unit_rates[i], timeline.rates[k].start) =>
                    timeline.rates[k].value_inc_vat
                        = 10 * unit_rates[i].value_inc_vat


-----------------------------------------------------------------------------
(* The resolver on its own: one call of _get_potential_tariff_rates for    *)
(* tariff_name in region C against rest_api.                               *)

MaxProducts == 3

\* what the catalog may list: the plan itself, products whose name only
\* contains the plan's name (in the same or another case), and the plan's
\* name on an export product
Listed ==
    { Product("Octopus Go", "GO-VAR-22-10-14"),
      Product("Intelligent Octopus Go", "INTELLI-VAR-22-10-14"),
      Product("OCTOPUS GO", "GO-4H-0030"),
      [Product("Octopus Go", "GO-EXPORT-23-03-01") EXCEPT !.direction = "EXPORT"],
      Product("Agile Octopus", "AGILE-24-10-01") }

\* a payment-method sub-block as the product detail lists it
SubBlock(method, charge) ==
    [standing_charge_inc_vat |-> charge,
     links |-> << [rel |-> "standing_charges", href |-> "standing-charges/"],
                  [rel |-> "standard_unit_rates", href |-> method] >>]

\* a sub-block may be absent, complete, without a standing charge or without
\* the unit-rates link
SubBlocks(method, charge) ==
    { <<>>,
      << SubBlock(method, charge) >>,
      << SubBlock(method, None) >>,
      << [SubBlock(method, charge) EXCEPT !.links = SubSeq(@, 1, 1)] >> }

\* the detail lists region C with its sub-blocks, or another region only
Details ==
    { region_code_key("C") :> [direct_debit_monthly |-> dd, varying |-> var] :
        dd \in SubBlocks("direct_debit_monthly", 45000),
        var \in SubBlocks("varying", 47000) }
    \cup { region_code_key("A") :>
             [direct_debit_monthly |-> << SubBlock("direct_debit_monthly", 45000) >>,
              varying |-> <<>>] }

Outages == { {}, {"products"}, {"detail"}, {"unit_rates"} }

InitResolve ==
    /\ tariff_name \in {"Octopus Go", "Agile Octopus"}
    /\ rest_api \in
          [unreachable : Outages,
           products : DistinctSeqs(Listed, MaxProducts),
           regions : Details,
           unit_rates : {GoodRates("Octopus Go")}]
    /\ resolved = NotResolved
    /\ unit_rates = <<>>
    /\ standing_charge = 0
    /\ calc = NotCalled
    /\ consumption_data = <<>>
    /\ analysis_date = 0
    /\ uk_offset = 0
    /\ Idle
    /\ check_time = 0
    /\ period = <<0, 0>>
    /\ classified = NotClassified
    /\ timeline = NotFormatted
    /\ current_rate = NotLookedUp

\* _get_potential_tariff_rates(tariff_name, "C", analysis_date)
GetPotentialTariffRates ==
    /\ resolved.requests = <<>>
    /\ resolved' = get_potential_tariff_rates(tariff_name, "C", rest_api)
    /\ UNCHANGED <<rest_api, calc_vars, uk_offset, run_vars, coordinator_vars>>
    /\ UNCHANGED <<classifier_vars, rates_vars, entity_vars>>

NextResolve == GetPotentialTariffRates

SpecResolve == InitResolve /\ [][NextResolve]_vars


-----------------------------------------------------------------------------
(* Properties of the resolver, under SpecResolve *)

\* the call was made and the catalog was served
Matched == resolved.requests # <<>> /\ "products" \notin rest_api.unreachable

\* the catalog's import products named exactly as the plan, and those whose
\* name contains the plan's name in any case
NamedExactly ==
    { i \in DOMAIN rest_api.products :
        /\ rest_api.products[i].direction = "IMPORT"
        /\ Chars(rest_api.products[i].display_name) = Chars(tariff_name) }
NamesPlan ==
    { i \in DOMAIN rest_api.products :
        /\ rest_api.products[i].direction = "IMPORT"
        /\ In(lower(Chars(tariff_name)),
              lower(Chars(rest_api.products[i].display_name))) }

\* C21: the resolver picks an import product named exactly as the plan
\* whenever the catalog has one, wherever it stands; when there is none it
\* picks the first import product whose name contains the plan's name in any
\* case; when there is none either it fails with "No matching tariff found",
\* and only then.
C21_ExactThenFirstContaining ==
    Matched =>
        /\ (NamedExactly # {} /\ ~resolved.raised) =>
              \E i \in NamedExactly : resolved.code = rest_api.products[i].code
        /\ (NamedExactly = {} /\ NamesPlan # {} /\ ~resolved.raised) =>
              resolved.code = rest_api.products[Min(NamesPlan)].code
        /\ (resolved.raised /\ resolved.error = "No matching tariff found")
              <=> (NamedExactly = {} /\ NamesPlan = {})
        /\ (NamedExactly = {} /\ NamesPlan = {}) =>
              resolved.requests = <<"products">>

\* an exact match is picked although a product that only contains the name
\* stands before it
C21_Witness ==
    /\ Matched
    /\ ~resolved.raised
    /\ \E i \in NamedExactly :
          /\ resolved.code = rest_api.products[i].code
          /\ \E j \in NamesPlan \ NamedExactly : j < i


\* the call got as far as the plan's region in the product detail
RegionListed ==
    /\ Matched
    /\ NamesPlan # {}
    /\ "detail" \notin rest_api.unreachable
    /\ region_code_key("C") \in DOMAIN rest_api.regions

\* the sub-blocks of the plan's region, and whether one is all there
DirectDebitMonthly == rest_api.regions[region_code_key("C")].direct_debit_monthly
Varying == rest_api.regions[region_code_key("C")].varying
Complete(block) ==
    /\ block # <<>>
    /\ block[1].standing_charge_inc_vat # None
    /\ \E i \in DOMAIN block[1].links : block[1].links[i].rel = "standard_unit_rates"

\* the call returned the charge of this sub-block and fetched its link
TakenFrom(block) ==
    /\ resolved.standing_charge = block[1].standing_charge_inc_vat
    /\ \E i \in DOMAIN block[1].links :
          /\ block[1].links[i].rel = "standard_unit_rates"
          /\ resolved.unit_rates_link = block[1].links[i].href

\* C22: the standing charge and the unit-rates link come from the region's
\* direct_debit_monthly sub-block whenever it is present and from the varying
\* one only when it is absent; "No payment method found" is raised only when
\* both are absent; and the unit-rates request is issued only after region,
\* payment method, standing charge and unit-rates link were all found.
C22_DirectDebitMonthlyThenVarying ==
    /\ RegionListed =>
          /\ (~resolved.raised /\ DirectDebitMonthly # <<>>) =>
                TakenFrom(DirectDebitMonthly)
          /\ (~resolved.raised /\ DirectDebitMonthly = <<>>) =>
                (Varying # <<>> /\ TakenFrom(Varying))
          /\ (DirectDebitMonthly # <<>> /\ ~Complete(DirectDebitMonthly)) =>
                resolved.raised
          /\ (resolved.raised /\ resolved.error = "No payment method found")
                <=> (DirectDebitMonthly = <<>> /\ Varying = <<>>)
    /\ (\E i \in DOMAIN resolved.requests : resolved.requests[i] = "unit_rates") =>
          /\ RegionListed
          /\ resolved.requests = <<"products", "detail", "unit_rates">>
          /\ Complete(IF DirectDebitMonthly # <<>> THEN DirectDebitMonthly
                      ELSE Varying)

\* both sub-blocks are all there and the call returns the direct-debit
\* monthly standing charge
C22_Witness ==
    /\ RegionListed
    /\ Complete(DirectDebitMonthly)
    /\ Complete(Varying)
    /\ ~resolved.raised
    /\ TakenFrom(DirectDebitMonthly)
    /\ ~TakenFrom(Varying)


-----------------------------------------------------------------------------
(* The rates event entities over a sequence of coordinator updates, each   *)
(* one publishing what a run of get_tariff_data returns or raises.         *)

MaxRefreshes == 3

\* api.py 546-575: the dicts after the loop's first n plans, worlds[i] being
\* the REST API as the i-th plan finds it
RECURSIVE loop_dicts(_, _, _, _, _, _)
loop_dicts(n, worlds, readings, region_code, offset, instant) ==
    IF n = 0
    THEN [tariff_costs |-> EmptyDict, tariff_rates |-> EmptyDict]
    ELSE compare_plan(TARIFFS_TO_COMPARE[n], worlds[n],
             loop_dicts(n - 1, worlds, readings, region_code, offset, instant),
             readings, region_code, today_uk(instant, offset), offset,
             instant).dicts

\* get_tariff_data when token, account and telemetry are fetched
get_tariff_data(worlds, readings, account, offset, instant) ==
    IF no_consumption(readings) THEN EmptyResult
    ELSE LET dicts == loop_dicts(Len(TARIFFS_TO_COMPARE), worlds, readings,
                                 account.region_code, offset, instant)
         IN  comparison_result(account, readings, dicts.tariff_rates,
                               dicts.tariff_costs)

\* a run in the morning and one later, after an Agile interval has ended
RefreshClocks ==
    { [slot |-> 58, on_the_second |-> FALSE],
      [slot |-> 70, on_the_second |-> FALSE] }

\* the first plan succeeds or fails, the others succeed
RefreshWorlds ==
    { << agile, Reachable("Octopus Go"), Reachable("Cosy Octopus"),
         Reachable("Flexible Octopus") >> :
        agile \in PlanWorlds("Agile Octopus") }

\* what a run may hand the coordinator: an exception, the empty result or a
\* comparison
Runs ==
    {Exception} \cup
    { get_tariff_data(worlds, readings,
          [tariff_code |-> "E-1R-AGILE-24-10-01-C",
           region_code |-> region_code_of("E-1R-AGILE-24-10-01-C"),
           device_id |-> "device"],
          uk_offset, instant) :
        worlds \in RefreshWorlds, readings \in Telemetry,
        instant \in RefreshClocks }

InitEvents ==
    /\ tariff_name = "Agile Octopus"
    /\ unit_rates = <<>>
    /\ standing_charge = 0
    /\ calc = NotCalled
    /\ consumption_data = <<>>
    /\ analysis_date = 0
    /\ uk_offset = 0
    /\ Idle
    /\ NoCalls

\* one update of the coordinator: _async_update_data returns the run's data
\* or raises UpdateFailed, then the entities' _handle_coordinator_update
\* run (after a failed update the coordinator may leave them alone)
Refresh ==
    /\ updates < MaxRefreshes
    /\ \E result \in Runs :
          /\ update' = async_update_data(result, data).update
          /\ data' = async_update_data(result, data).data
          /\ \/ /\ last_rates_update' =
                      [k \in RatesEvents |->
                          handle_coordinator_update(data', k,
                                                    last_rates_update[k]).last]
                /\ triggered' =
                      [k \in RatesEvents |->
                          LET event == handle_coordinator_update(data', k,
                                           last_rates_update[k])
                          IN  IF event.fired THEN <<event.rates>>
                              ELSE triggered[k]]
                /\ events' =
                      [k \in RatesEvents |->
                          IF handle_coordinator_update(data', k,
                                 last_rates_update[k]).fired
                          THEN events[k] + 1 ELSE events[k]]
             \/ /\ result.kind = "raised"
                /\ UNCHANGED entity_vars
    /\ updates' = updates + 1
    /\ UNCHANGED <<calc_vars, uk_offset, run_vars>>
    /\ UNCHANGED <<classifier_vars, rates_vars, resolver_vars>>

NextEvents == Refresh

SpecEvents == InitEvents /\ [][NextEvents]_vars


-----------------------------------------------------------------------------
(* Properties of the rates event entities, under SpecEvents *)

\* C25: on every coordinator update the entity of a plan fires rates_updated
\* if and only if the published result holds a non-empty timeline for the
\* plan whose string form differs from that of the last event the entity
\* fired (or it has fired none); the event carries that timeline; an update
\* that publishes the timeline of the update before fires nothing; and an
\* update without a timeline for the plan fires nothing and leaves what the
\* entity remembers as it was.
C25_FiresOnNewTimeline ==
    [][ \A k \in RatesEvents :
          LET latest == IF data'.kind = "result" /\ k \in DOMAIN data'.tariff_rates
                        THEN data'.tariff_rates[k]
                        ELSE <<>>
              fires == events'[k] = events[k] + 1
          IN  /\ events'[k] \in {events[k], events[k] + 1}
              /\ fires <=>
                    /\ latest # <<>>
                    /\ triggered[k] = <<>> \/ str(triggered[k][1]) # str(latest)
              /\ fires => triggered'[k] = <<latest>>
              /\ ~fires =>
                    /\ triggered'[k] = triggered[k]
                    /\ last_rates_update'[k] = last_rates_update[k]
              /\ ( /\ latest # <<>>
                   /\ data.kind = "result"
                   /\ k \in DOMAIN data.tariff_rates
                   /\ data.tariff_rates[k] = latest ) => ~fires
      ]_vars

\* two updates published two timelines for the first plan and twice the same
\* for the fourth: two events and one
C25_Witness ==
    /\ updates = 2
    /\ update = "success"
    /\ events[tariff_key("Agile Octopus")] = 2
    /\ events[tariff_key("Flexible Octopus")] = 1
    /\ tariff_key("Flexible Octopus") \in DOMAIN data.tariff_rates
    /\ triggered[tariff_key("Flexible Octopus")]
          = <<data.tariff_rates[tariff_key("Flexible Octopus")]>>

====
